---- MODULE Spec2Model ----
(***************************************************************************)
(* Session bridge engine of the Amazon Connect <-> Nova Sonic bridge.      *)
(*                                                                         *)
(* Four bridge variants live in the repository and are modelled here as    *)
(* one state machine selected by `variant`:                                *)
(*   "kvs"    the KVS/WebRTC bridge            (src/unnamed/part_004)      *)
(*   "sim"    the simulated WebRTC bridge      (src/WebRTCBridgeServer.ts) *)
(*   "simple" the simplified test-audio bridge (src/unnamed/part_005)      *)
(*   "ms"     the /media-stream bridge  (src/CONTINUOUS_MODE_IMPROVEMENTS.md) *)
(*                                                                         *)
(* The AI session object (StreamSession of ./src/nova-client) is not part  *)
(* of the sources; it is an external collaborator.  For every operation    *)
(* of the session aiCalls counts the calls the bridge has issued and how   *)
(* many of them have settled successfully or with an error; either outcome *)
(* is possible for every call.                                             *)
(*                                                                         *)
(* callSession.transcriptLog is the sequence of the entries pushed onto    *)
(* it, oldest first.  An entry keeps the event tag of its call and, in the *)
(* records of the 'any' handler, the type of the event; the time and the   *)
(* other details of the call are left out.                                 *)
(*                                                                         *)
(* Every action is one run-to-completion step of the Node.js event loop:   *)
(* a handler from its entry (or from the resumption of an await) up to the *)
(* next await, return or process.exit.                                     *)
(***************************************************************************)
EXTENDS Integers, Sequences, FiniteSets, TLC

(***************************************************************************)
(* Bounds of the model                                                     *)
(***************************************************************************)
MaxFrames == 2
MaxEvents == 2
MaxSignals == 1
MaxSigMsgs == 2
MaxMsgs == 4
MaxTicks == 3
MaxCandidates == 1
TicksPerTimeout == 2
MaxReconnects == 1

(***************************************************************************)
(* Program constants                                                       *)
(***************************************************************************)
SESSION_TIMEOUT_MS == 60000
ORPHAN_AGE_MS == 5 * 60 * 1000
SWEEP_INTERVAL_MS == 2 * 60 * 1000
BATCH_SIZE == 3
INTERRUPTION_THRESHOLD == 500
\* the period of the setInterval of startAudioProcessing and the delay of
\* the test audio of startServer
AUDIO_INTERVAL_MS == 1000
TEST_AUDIO_DELAY_MS == 5000
\* the waits of startup: between the setup calls of the AI session and for
\* the simulated signaling connection, and for the simulated peer connection
SETUP_WAIT_MS == 1000
SIM_WEBRTC_WAIT_MS == 2000

\* Granularity of the model's clock in the single-call variants.
MsPerTick == SESSION_TIMEOUT_MS \div TicksPerTimeout

Variants == {"kvs", "sim", "simple", "ms"}
SingleCall == {"kvs", "sim", "simple"}

NULL == 0
NoContent == <<-1>>

(***************************************************************************)
(* The environment of one behaviour is one of these workloads.  A workload *)
(* bounds what the environment delivers: inbound audio frames, AI events,  *)
(* clock advances, signals, signaling frames (sigmsgs) and caller messages *)
(* (msgs); media says whether the peer connection makes progress, faults   *)
(* whether the signaling socket may fail or close on its own, inorder      *)
(* whether the caller keeps to the message order of a call: 'connected',   *)
(* 'start', 'media' frames, 'stop', clock whether /media-stream time is    *)
(* followed from one sweep to the next ("coarse") or in steps of the       *)
(* interruption threshold ("fine"), sdp what the relay delivers besides    *)
(* the connect acknowledgement and answers: nothing ("none"), remote       *)
(* offers, ICE candidates and frames that are not JSON ("any"), remote     *)
(* offers ("offer"), ICE candidates once the connection is acknowledged    *)
(* ("trickle"), or frames the handler has no case for, the JSON text null  *)
(* among them ("junk"), candidates how many ICE candidates the peer        *)
(* connection gathers, control whether the AI session emits its session    *)
(* and tool events instead of responses, webaudio whether the runtime has  *)
(* the AudioContext and MediaStream globals the media path uses (plain     *)
(* Node has neither), early whether the caller side, the AI session, the   *)
(* operator and the clock act while startServer is still running or only   *)
(* once the server listens, steady whether the AI session accepts every    *)
(* frame, reconnects how often a lost peer connection comes back, timed    *)
(* whether the clock runs on to the deadline of a pending idle timer when  *)
(* the clock advances of the workload are used up.                         *)
(***************************************************************************)
Quiet == [frames |-> 0, events |-> 0, ticks |-> 0, signals |-> 0,
          sigmsgs |-> 1, msgs |-> 0, media |-> FALSE, faults |-> FALSE,
          inorder |-> FALSE, clock |-> "coarse", sdp |-> "none",
          candidates |-> 0, control |-> FALSE, webaudio |-> TRUE,
          early |-> TRUE, steady |-> FALSE, reconnects |-> 0,
          timed |-> FALSE]

With(w, name, frames, events, ticks, signals) ==
    [w EXCEPT !.frames = frames, !.events = events, !.ticks = ticks,
              !.signals = signals] @@ [name |-> name]

SingleCallWorkloads ==
    { With([Quiet EXCEPT !.media = TRUE, !.sigmsgs = 2, !.early = FALSE],
           "audio", MaxFrames, 0, 0, 0),
      With([Quiet EXCEPT !.media = TRUE], "hangup", 1, 0, 0, 1),
      With([Quiet EXCEPT !.media = TRUE, !.sigmsgs = 2, !.early = FALSE,
                         !.reconnects = MaxReconnects],
           "reply", 0, 1, 0, 0),
      With([Quiet EXCEPT !.early = FALSE],
           "idle", 0, MaxEvents, TicksPerTimeout, 0),
      With(Quiet, "lull", 0, 1, 3, 0),
      With([Quiet EXCEPT !.early = FALSE, !.timed = TRUE],
           "race", 0, 0, TicksPerTimeout, 1),
      With([Quiet EXCEPT !.faults = TRUE, !.sigmsgs = 2, !.timed = TRUE],
           "faults", 0, 0, MaxTicks, 0),
      With([Quiet EXCEPT !.sdp = "any", !.sigmsgs = 3],
           "handshake", 0, 0, 0, 0),
      With([Quiet EXCEPT !.sdp = "offer", !.faults = TRUE, !.sigmsgs = 2,
                         !.candidates = MaxCandidates],
           "relay", 0, 0, 0, 0),
      With([Quiet EXCEPT !.sdp = "trickle", !.sigmsgs = 4],
           "trickle", 0, 0, 0, 0),
      With([Quiet EXCEPT !.inorder = TRUE], "turn", 0, MaxEvents + 2, 0, 0),
      With([Quiet EXCEPT !.control = TRUE], "tools", 0, MaxEvents, 0, 0),
      With([Quiet EXCEPT !.sdp = "junk", !.sigmsgs = MaxSigMsgs + 1],
           "junk", 0, 0, 0, 0),
      With([Quiet EXCEPT !.media = TRUE, !.webaudio = FALSE, !.sigmsgs = 2,
                         !.early = FALSE],
           "node", 2, 1, 0, 0) }

MediaStreamWorkloads ==
    { With([Quiet EXCEPT !.msgs = MaxMsgs], "call", 0, 0, 0, 0),
      With([Quiet EXCEPT !.msgs = MaxMsgs, !.inorder = TRUE],
           "talk", 0, MaxEvents, 0, 0),
      With([Quiet EXCEPT !.msgs = MaxMsgs - 1, !.inorder = TRUE,
                         !.clock = "fine"],
           "late", 0, MaxEvents - 1, MaxTicks - 2, 0),
      With([Quiet EXCEPT !.msgs = MaxMsgs - 2], "sweep", 0, 0, MaxTicks, 0),
      With([Quiet EXCEPT !.msgs = BATCH_SIZE + MaxFrames + 3, !.inorder = TRUE],
           "stream", 0, 0, 0, 0),
      With([Quiet EXCEPT !.msgs = MaxMsgs - 2, !.inorder = TRUE],
           "quit", 0, 0, 0, MaxSignals) }

\* the placeholder audio of WebRTCBridgeServer.ts alone drives the clock of
\* that variant, one frame a second: "soak" lets it run just past the idle
\* threshold
Workloads(v) ==
    CASE v = "ms" -> MediaStreamWorkloads
      [] v = "sim" ->
           SingleCallWorkloads
              \cup {With([Quiet EXCEPT !.inorder = TRUE, !.steady = TRUE], "soak",
                         SESSION_TIMEOUT_MS \div AUDIO_INTERVAL_MS + 1, 0, 0, 0)}
      [] OTHER -> SingleCallWorkloads

VARIABLES
    variant,        \* which bridge server is running
    workload,       \* what the environment of this behaviour may deliver
    pc,             \* position of startServer (single-call variants)
    exitCode,       \* -1 while the process runs, else the process.exit code
    now,            \* Date.now(), in ms since module load
    ticks,          \* number of clock advances so far
    waitDue,        \* when the setTimeout startup waits on is due, -1 when none
    novaSonicSession,   \* TRUE once createStreamSession assigned it
    aiCalls,        \* per AI session operation: calls issued, succeeded, failed
    transcriptLog,  \* callSession.transcriptLog: its entries, oldest first
    callLogLines,   \* "[CALL LOG]" lines written to the console
    novaSonicResponses, \* callSession.novaSonicResponses
    lastActivity,   \* callSession.lastActivity
    kvsState,       \* callSession.kvsState
    webRTCState,    \* callSession.webRTCState
    streamArnSet,   \* STREAM_ARN present in the environment
    wildcardFirst,  \* the AI session calls the 'any' handler before the tag handler
    kvsWebSocket,   \* "none" or the ws readyState
    wsAcked,        \* a connect acknowledgement was received
    sigMsgs,        \* signaling frames and socket errors received, in order
    peer,           \* peerConnection and audioSender/audioReceiver, see NoPeer
    framesIn,       \* inbound audio frames delivered so far
    streamedAudio,  \* the buffers passed to streamAudio, with their frame
    audioPending,   \* processAudioChunk activations awaiting streamAudio
    eventsIn,       \* AI events delivered so far
    fatalError,     \* an error event of the fatal category was delivered
    anyEvents,      \* what the 'any' handler has seen: totalEvents, last eventType
    pcmOut,         \* PCM buffers handed to the outbound media path
    sessionTimeoutId,   \* id of the last setTimeout, NULL when cleared
    pendingTimers,  \* armed timers: set of [id, deadline]
    timerSeq,       \* ids handed out by setTimeout
    lastNovaSonicResponseTime,
    lastEventAt,    \* time of the most recent textOutput/audioOutput event
    sessionOpenedAt,    \* time setupStartAudio completed, -1 before
    runs,           \* cleanup() activations: Seq of [trig, pc, steps, overlaps]
    timeoutCleanups,    \* timer callbacks that started cleanup: [at, lastEvent]
    signals,        \* SIGINT/SIGTERM deliveries so far
    audioTimer,     \* kind "interval" (sim setInterval), "oneshot" (simple 5 s test) or "none", and when it is due
    listening,      \* fastify.listen resolved
    ms              \* state of the /media-stream variant

vars == <<variant, workload, pc, exitCode, now, ticks, waitDue,
          novaSonicSession,
          aiCalls,
          transcriptLog, callLogLines, novaSonicResponses, lastActivity,
          kvsState,
          webRTCState, streamArnSet, wildcardFirst, kvsWebSocket, wsAcked, sigMsgs, peer,
          framesIn, streamedAudio, audioPending, eventsIn, fatalError, anyEvents,
          pcmOut,
          sessionTimeoutId,
          pendingTimers, timerSeq, lastNovaSonicResponseTime, lastEventAt,
          sessionOpenedAt, runs, timeoutCleanups, signals, audioTimer, listening, ms>>

\* groups used in UNCHANGED clauses
envVars == <<variant, workload, streamArnSet, wildcardFirst>>
idVars == <<envVars, sessionOpenedAt>>
clockVars == <<now, ticks, waitDue>>
logVars == <<transcriptLog, callLogLines, lastActivity>>
sigVars == <<kvsState, kvsWebSocket, wsAcked, sigMsgs>>
timerVars == <<sessionTimeoutId, pendingTimers, timerSeq,
               lastNovaSonicResponseTime, lastEventAt, timeoutCleanups>>
evVars == <<eventsIn, fatalError, anyEvents>>
frameVars == <<framesIn, streamedAudio>>
inVars == <<frameVars, audioPending, evVars, signals>>

alive == exitCode = -1

(***************************************************************************)
(* Helpers                                                                 *)
(***************************************************************************)
Ops == {"initiateSession", "setupPromptStart", "setupSystemPrompt",
        "setupStartAudio", "streamAudio", "endAudioContent", "endPrompt",
        "close"}
NoCalls == [op \in Ops |-> [called |-> 0, ok |-> 0, failed |-> 0]]
Call(c, op) == [c EXCEPT ![op].called = @ + 1]
Settle(c, op, ok) == IF ok THEN [c EXCEPT ![op].ok = @ + 1]
                           ELSE [c EXCEPT ![op].failed = @ + 1]

Range(s) == {s[i] : i \in 1..Len(s)}

\* the entry logCallActivity(event, details) pushes,
\* `${timestamp} - ${event}: ${JSON.stringify(details)}`, without its time
Entry(event, details) == [event |-> event, details |-> details]

\* the entries of a run of logCallActivity calls whose details the model
\* does not follow
Acts(tags) == [i \in 1..Len(tags) |-> Entry(tags[i], "")]

\* a logCallActivity that keeps only the entries of the current handler
LogEntries_Rotating(entries) ==
    /\ transcriptLog' = IF entries = <<>> THEN transcriptLog ELSE entries
    /\ callLogLines' = callLogLines + Len(entries)
    /\ lastActivity' = IF entries = <<>> THEN lastActivity ELSE now

\* logCallActivity, once per entry: write the console line, stamp
\* lastActivity, push onto transcriptLog
LogEntries(entries) ==
    /\ transcriptLog' = transcriptLog \o entries
    /\ callLogLines' = callLogLines + Len(entries)
    /\ lastActivity' = IF entries = <<>> THEN lastActivity ELSE now

LogActs(tags) == LogEntries(Acts(tags))

\* how often tag has been recorded
Logged(tag) ==
    Cardinality({i \in 1..Len(transcriptLog) : transcriptLog[i].event = tag})

\* callSession.transcriptLog.length
Entries(log) == Len(log)

\* A timer callback has returned from cleanup() and its process.exit(0) is
\* the next microtask: only other promise continuations can run before it.
exitPending ==
    \E i \in 1..Len(runs) : runs[i].trig = "timer" /\ runs[i].pc = "returned"

\* So is the continuation of `await connectToKVSWebSocket` once the connect
\* acknowledgement has resolved its promise or a socket error has rejected
\* it.
microtaskPending == exitPending \/ pc \in {"wsResolved", "wsRejected"}

\* guard of every event-loop task (I/O event, timer, signal)
taskReady == alive /\ ~microtaskPending

\* the caller side, the AI session, the operator and the clock of the
\* workload act
envActs == workload.early \/ listening

\* guard of the 'message', 'error' and 'close' handlers of the signaling
\* socket: the socket emits the events of one read one after the other in
\* one task, so an event can be handled before the continuation that the
\* event before it made ready
frameReady == alive /\ ~exitPending

(***************************************************************************)
(* Initial state: the module has been evaluated and startServer() has run  *)
(* up to its first await (initializeNovaSonicClient), in every variant.    *)
(* The /media-stream server takes one caller connection once it listens.   *)
(***************************************************************************)
NoAudioTimer == [kind |-> "none", due |-> 0]

NoPeer == [made |-> FALSE, state |-> "new", closed |-> FALSE,
           receiver |-> FALSE, track |-> FALSE, sender |-> FALSE,
           remote |-> FALSE,
           sig |-> "stable", local |-> FALSE, pending |-> <<>>, iceIn |-> 0,
           iceTried |-> <<>>, iceOut |-> 0, reconnects |-> 0]

\* the awaits of the /media-stream handlers an activation can be parked at
MsAwaits == {"setupPromptStart", "setupSystemPrompt", "setupStartAudio",
             "streamAudio", "flush", "endAudioContent", "close"}

\* /media-stream: the one caller connection and the closure variables of its
\* handler; awaiting counts the handler activations parked at each await,
\* withArn those of them whose 'start' message carried a stream ARN, closing
\* the SIGINT handlers waiting for fastify.close(),
\* streamed lists the batches handed to streamAudio (frames are numbered in
\* arrival order), sends counts connection.send calls by connection state
\* and the audioOutput events that threw, relayed lists the outbound frames
\* handed to connection.send, each with the event content it was made from
\* and the advisory flag at that moment,
\* agentStartedAt is the time of the last contentStart (the handler keeps
\* no such time), block counts the inbound frames handled while the agent
\* speaks and the "interruption detected" lines logged since the last
\* contentStart or contentEnd
MsInit == [conn |-> "none", registered |-> FALSE, activity |-> -1,
           streamARN |-> FALSE, audioBufferQueue |-> <<>>,
           awaiting |-> [a \in MsAwaits |-> 0],
           withArn |-> [a \in {"setupSystemPrompt", "setupStartAudio"} |-> 0],
           closing |-> 0, msgs |-> 0, nextFrame |-> 1,
           streamed |-> <<>>, isAgentSpeaking |-> FALSE,
           interruptionDetected |-> FALSE, sessionInterruptionFlag |-> FALSE,
           lastCustomerAudioTime |-> -1, agentStartedAt |-> -1,
           block |-> [inbound |-> 0, detections |-> 0],
           sweepDue |-> FALSE,
           sends |-> [open |-> 0, notOpen |-> 0, failed |-> 0],
           relayed |-> <<>>]

\* the workloads in which the AI session stays silent, with a clock that
\* runs on to the deadline of every pending timer
Silent(v) ==
    {[w EXCEPT !.timed = TRUE] : w \in {x \in Workloads(v) : x.events = 0}}

InitIn(workloads) ==
    /\ variant \in Variants
    /\ workload \in workloads
    /\ streamArnSet \in BOOLEAN
    /\ (variant \in {"simple", "ms"} => streamArnSet)
    /\ wildcardFirst \in BOOLEAN
    /\ (variant = "ms" \/ workload.events = 0 => ~wildcardFirst)
    /\ pc = "initializeNovaSonicClient"
    /\ exitCode = -1
    /\ now = 0
    /\ ticks = 0
    /\ waitDue = -1
    /\ novaSonicSession = FALSE
    /\ aiCalls = NoCalls
    /\ transcriptLog = <<>>
    /\ callLogLines = 0
    /\ novaSonicResponses = <<>>
    /\ lastActivity = 0
    /\ kvsState = "connecting"
    /\ webRTCState = "connecting"
    /\ kvsWebSocket = "none"
    /\ wsAcked = FALSE
    /\ sigMsgs = <<>>
    /\ peer = NoPeer
    /\ framesIn = 0
    /\ streamedAudio = <<>>
    /\ audioPending = 0
    /\ eventsIn = 0
    /\ fatalError = FALSE
    /\ anyEvents = [totalEvents |-> 0, eventType |-> "none"]
    /\ pcmOut = <<>>
    /\ sessionTimeoutId = NULL
    /\ pendingTimers = {}
    /\ timerSeq = 0
    /\ lastNovaSonicResponseTime = 0
    /\ lastEventAt = -1
    /\ sessionOpenedAt = -1
    /\ runs = <<>>
    /\ timeoutCleanups = {}
    /\ signals = 0
    /\ audioTimer = NoAudioTimer
    /\ listening = FALSE
    /\ ms = MsInit

Init == InitIn(Workloads(variant))

(***************************************************************************)
(* Idle timer                                                              *)
(***************************************************************************)
\* clearTimeout(id): a timer that is no longer pending is left alone
clearTimeout(timers, id) == {t \in timers : t.id # id}

\* arming the idle timer without the clearTimeout of the previous one
ArmSessionTimeout_NoClear ==
    /\ pendingTimers' =
          pendingTimers
          \cup {[id |-> timerSeq + 1, deadline |-> now + SESSION_TIMEOUT_MS]}
    /\ sessionTimeoutId' = timerSeq + 1
    /\ timerSeq' = timerSeq + 1

\* setTimeout(callback, SESSION_TIMEOUT_MS), after the optional clearTimeout
\* of the previous id, as both startSessionTimeoutMonitoring and
\* resetSessionTimeout do
ArmSessionTimeout ==
    /\ pendingTimers' =
          (IF sessionTimeoutId # NULL
           THEN clearTimeout(pendingTimers, sessionTimeoutId)
           ELSE pendingTimers)
          \cup {[id |-> timerSeq + 1, deadline |-> now + SESSION_TIMEOUT_MS]}
    /\ sessionTimeoutId' = timerSeq + 1
    /\ timerSeq' = timerSeq + 1

startSessionTimeoutMonitoring ==
    /\ ArmSessionTimeout
    /\ UNCHANGED <<lastNovaSonicResponseTime, lastEventAt, timeoutCleanups>>

\* GET /health: timeUntilTimeout, SESSION_TIMEOUT_MS less the time since
\* lastNovaSonicResponseTime, in seconds rounded as Math.round does
health_timeUntilTimeout ==
    ((SESSION_TIMEOUT_MS - (now - lastNovaSonicResponseTime)) + 500) \div 1000

(***************************************************************************)
(* startServer and the functions it awaits (single-call variants)          *)
(***************************************************************************)
\* a catch of startServer that logs the failure and lets startup go on
StartFailed_Swallowed(tags) ==
    /\ LogActs(tags \o <<"SERVER_START_FAILED">>)
    /\ exitCode' = exitCode
    /\ pc' = "listen"

\* catch of startServer: SERVER_START_FAILED, process.exit(1)
StartFailed(tags) ==
    /\ LogActs(tags \o <<"SERVER_START_FAILED">>)
    /\ exitCode' = 1
    /\ pc' = "failed"

\* `await initializeNovaSonicClient()` settles; on success
\* initializeNovaSonicSession runs up to `await initiateSession`
initializeNovaSonicClient ==
    /\ alive /\ variant \in SingleCall
    /\ pc = "initializeNovaSonicClient"
    /\ \E ok \in BOOLEAN :
          IF ok
          THEN /\ LogActs(<<"NOVA_SONIC_SESSION_INITIALIZATION_STARTED">>)
               /\ novaSonicSession' = TRUE
               /\ aiCalls' = Call(aiCalls, "initiateSession")
               /\ pc' = "initiateSession"
               /\ UNCHANGED exitCode
          ELSE /\ StartFailed(<<>>)
               /\ UNCHANGED <<novaSonicSession, aiCalls>>
    /\ UNCHANGED <<idVars, clockVars, novaSonicResponses, sigVars, webRTCState,
                   peer, inVars, pcmOut, timerVars, runs, audioTimer,
                   listening, ms>>

\* catch of initializeNovaSonicSession, rethrown into startServer's catch
SessionInitFailed(op) ==
    /\ aiCalls' = Settle(aiCalls, op, FALSE)
    /\ StartFailed(<<"NOVA_SONIC_SESSION_INITIALIZATION_FAILED">>)

\* an awaited control call whose failure is swallowed: the function goes on
\* to the next call
SessionStep_Swallow(op, next, nextPc) ==
    /\ alive /\ variant \in SingleCall
    /\ pc = op
    /\ \E ok \in BOOLEAN :
          /\ aiCalls' = IF next = "" THEN Settle(aiCalls, op, ok)
                        ELSE Call(Settle(aiCalls, op, ok), next)
          /\ waitDue' = IF next = "" THEN now + SETUP_WAIT_MS ELSE waitDue
          /\ pc' = nextPc
          /\ UNCHANGED <<exitCode, logVars>>
    /\ UNCHANGED <<idVars, now, ticks, novaSonicSession, novaSonicResponses,
                   sigVars, webRTCState, peer, inVars, pcmOut, timerVars,
                   runs, audioTimer, listening, ms>>

\* one awaited control call of initializeNovaSonicSession settles; on
\* success the function runs on to its next await: the next control call,
\* or (next = "") the setTimeout of the one-second wait
SessionStep(op, next, nextPc) ==
    /\ alive /\ variant \in SingleCall
    /\ pc = op
    /\ \E ok \in BOOLEAN :
          IF ok
          THEN /\ aiCalls' = IF next = "" THEN Settle(aiCalls, op, TRUE)
                           ELSE Call(Settle(aiCalls, op, TRUE), next)
               /\ waitDue' = IF next = "" THEN now + SETUP_WAIT_MS ELSE waitDue
               /\ pc' = nextPc
               /\ UNCHANGED <<exitCode, logVars>>
          ELSE /\ SessionInitFailed(op)
               /\ UNCHANGED waitDue
    /\ UNCHANGED <<idVars, now, ticks, novaSonicSession, novaSonicResponses,
                   sigVars, webRTCState, peer, inVars, pcmOut, timerVars,
                   runs, audioTimer, listening, ms>>

initiateSessionDone ==
    SessionStep("initiateSession", "setupPromptStart", "setupPromptStart")

\* part_004 and part_005 wait one second after the call; WebRTCBridgeServer.ts
\* goes straight on to setupSystemPrompt
setupPromptStartDone ==
    IF variant = "sim"
    THEN SessionStep("setupPromptStart", "setupSystemPrompt", "setupSystemPrompt")
    ELSE SessionStep("setupPromptStart", "", "delay1")

setupSystemPromptDone ==
    IF variant = "sim"
    THEN SessionStep("setupSystemPrompt", "setupStartAudio", "setupStartAudio")
    ELSE SessionStep("setupSystemPrompt", "", "delay2")

\* `await new Promise(resolve => setTimeout(resolve, 1000))` resumes, once
\* its timer is due
delayDone ==
    /\ alive /\ variant \in {"kvs", "simple"}
    /\ pc \in {"delay1", "delay2"}
    /\ waitDue <= now
    /\ waitDue' = -1
    /\ aiCalls' = Call(aiCalls, IF pc = "delay1" THEN "setupSystemPrompt"
                                             ELSE "setupStartAudio")
    /\ pc' = IF pc = "delay1" THEN "setupSystemPrompt" ELSE "setupStartAudio"
    /\ UNCHANGED <<idVars, now, ticks, exitCode, logVars, novaSonicSession,
                   novaSonicResponses, sigVars, webRTCState, peer, inVars,
                   pcmOut, timerVars, runs, audioTimer, listening, ms>>

\* `await setupStartAudio()` settles.  On success initializeNovaSonicSession
\* returns and startServer continues: connectToKVSSignalingChannel up to its
\* first await (kvs, sim), or startSessionTimeoutMonitoring and
\* `await fastify.listen` (simple).
setupStartAudioDone ==
    /\ alive /\ variant \in SingleCall
    /\ pc = "setupStartAudio"
    /\ \E ok \in BOOLEAN :
          /\ IF ~ok
             THEN /\ SessionInitFailed("setupStartAudio")
                  /\ UNCHANGED <<timerVars, sessionOpenedAt>>
             ELSE /\ aiCalls' = Settle(aiCalls, "setupStartAudio", TRUE)
                  /\ sessionOpenedAt' = now
                  /\ IF variant = "simple"
                     THEN /\ LogActs(<<"NOVA_SONIC_SESSION_INITIALIZED",
                                       "SESSION_TIMEOUT_MONITORING_STARTED">>)
                          /\ startSessionTimeoutMonitoring
                          /\ pc' = "listen"
                          /\ UNCHANGED exitCode
                     ELSE IF ~streamArnSet
                     THEN /\ StartFailed(<<"NOVA_SONIC_SESSION_INITIALIZED",
                                           "KVS_CONNECTION_FAILED">>)
                          /\ UNCHANGED timerVars
                     ELSE /\ LogActs(<<"NOVA_SONIC_SESSION_INITIALIZED",
                                       "KVS_CONNECTION_STARTED">>)
                          /\ pc' = IF variant = "kvs" THEN "kvsEndpoint"
                                                      ELSE "simKvsDelay"
                          /\ UNCHANGED <<exitCode, timerVars>>
          /\ waitDue' = IF ok /\ variant = "sim" /\ streamArnSet
                         THEN now + SETUP_WAIT_MS ELSE waitDue
    /\ UNCHANGED <<envVars, now, ticks, novaSonicSession, novaSonicResponses,
                   sigVars, webRTCState, peer, inVars, pcmOut, runs,
                   audioTimer, listening, ms>>

(***************************************************************************)
(* KVS signaling (part_004) and its simulation (WebRTCBridgeServer.ts)     *)
(***************************************************************************)
\* connectToKVSSignalingChannel: the endpoint lookup settles; on success
\* connectToKVSWebSocket creates the socket and the function waits for the
\* promise that the connect acknowledgement resolves
kvsEndpointDone ==
    /\ alive /\ variant = "kvs"
    /\ pc = "kvsEndpoint"
    /\ \E outcome \in {"ok", "noEndpoint", "wsCreateError"} :
          CASE outcome = "ok" ->
                 /\ LogActs(<<"KVS_ENDPOINT_RETRIEVED",
                              "KVS_WEBSOCKET_CONNECTION_STARTED">>)
                 /\ kvsWebSocket' = "CONNECTING"
                 /\ pc' = "wsConnect"
                 /\ UNCHANGED exitCode
            [] outcome = "noEndpoint" ->
                 /\ StartFailed(<<"KVS_CONNECTION_FAILED">>)
                 /\ UNCHANGED kvsWebSocket
            [] outcome = "wsCreateError" ->
                 /\ StartFailed(<<"KVS_ENDPOINT_RETRIEVED",
                                  "KVS_WEBSOCKET_CONNECTION_STARTED",
                                  "KVS_WEBSOCKET_CREATION_ERROR",
                                  "KVS_CONNECTION_FAILED">>)
                 /\ UNCHANGED kvsWebSocket
    /\ UNCHANGED <<idVars, clockVars, novaSonicSession, aiCalls,
                   novaSonicResponses, kvsState, wsAcked, sigMsgs, webRTCState,
                   peer, inVars, pcmOut, timerVars, runs, audioTimer,
                   listening, ms>>

\* an 'open' handler that records the signaling state as connected before
\* the relay acknowledged the connect message
ws_open_Connected ==
    /\ taskReady /\ variant = "kvs"
    /\ kvsWebSocket = "CONNECTING"
    /\ kvsWebSocket' = "OPEN"
    /\ kvsState' = "connected"
    /\ LogActs(<<"KVS_WEBSOCKET_CONNECTION_OPEN", "KVS_CONNECT_MESSAGE_SENT">>)
    /\ UNCHANGED <<idVars, clockVars, pc, exitCode, novaSonicSession, aiCalls,
                   novaSonicResponses, wsAcked, sigMsgs, webRTCState,
                   peer, inVars, pcmOut, timerVars, runs, audioTimer,
                   listening, ms>>

\* kvsWebSocket.on('open')
ws_open ==
    /\ taskReady /\ variant = "kvs"
    /\ kvsWebSocket = "CONNECTING"
    /\ kvsWebSocket' = "OPEN"
    /\ LogActs(<<"KVS_WEBSOCKET_CONNECTION_OPEN", "KVS_CONNECT_MESSAGE_SENT">>)
    /\ UNCHANGED <<idVars, clockVars, pc, exitCode, novaSonicSession, aiCalls,
                   novaSonicResponses, kvsState, wsAcked, sigMsgs, webRTCState,
                   peer, inVars, pcmOut, timerVars, runs, audioTimer,
                   listening, ms>>

\* kvsWebSocket.on('message') with action 'connect': resolve() settles the
\* promise of connectToKVSWebSocket, once
ws_message_connect ==
    /\ frameReady /\ variant = "kvs"
    /\ kvsWebSocket = "OPEN" /\ Len(sigMsgs) < workload.sigmsgs
    /\ sigMsgs' = Append(sigMsgs, "connect")
    /\ wsAcked' = TRUE
    /\ LogActs(<<"KVS_MESSAGE_RECEIVED", "KVS_CONNECTION_CONFIRMED">>)
    /\ pc' = IF pc = "wsConnect" THEN "wsResolved" ELSE pc
    /\ UNCHANGED <<idVars, clockVars, exitCode, novaSonicSession, aiCalls,
                   novaSonicResponses, kvsState, kvsWebSocket, webRTCState,
                   peer, inVars, pcmOut, timerVars, runs, audioTimer,
                   listening, ms>>

\* connectToKVSSignalingChannel resumes after `await connectToKVSWebSocket`:
\* it records kvsState, and initializeWebRTCConnection creates the peer
\* connection and runs up to createOffer
connectToKVSWebSocketDone ==
    /\ alive /\ variant = "kvs"
    /\ pc = "wsResolved"
    /\ kvsState' = "connected"
    /\ LogActs(<<"KVS_SIGNALING_CONNECTED", "WEBRTC_INITIALIZATION_STARTED">>)
    /\ peer' = [peer EXCEPT !.made = TRUE]
    /\ pc' = "createOffer"
    /\ UNCHANGED <<idVars, clockVars, exitCode, novaSonicSession, aiCalls,
                   novaSonicResponses, kvsWebSocket, wsAcked, sigMsgs,
                   webRTCState, inVars, pcmOut, timerVars, runs, audioTimer,
                   listening, ms>>

\* connectToKVSSignalingChannel resumes after `await connectToKVSWebSocket`
\* with the rejection of the socket's 'error' handler: its catch logs
\* KVS_CONNECTION_FAILED and rethrows, and the catch of startServer ends the
\* process
connectToKVSWebSocketRejected ==
    /\ alive /\ variant = "kvs"
    /\ pc = "wsRejected"
    /\ StartFailed(<<"KVS_CONNECTION_FAILED">>)
    /\ UNCHANGED <<idVars, clockVars, novaSonicSession, aiCalls,
                   novaSonicResponses, kvsState, kvsWebSocket, wsAcked,
                   sigMsgs, webRTCState, peer, inVars, pcmOut, timerVars,
                   runs, audioTimer, listening, ms>>

\* The peer connection settles its operations in the order of the calls; an
\* operation is accepted or rejected in the signaling state of its call, and
\* the handler that awaits it resumes later (pending).
Settled(p, op, ok, id) ==
    [p EXCEPT !.pending = Append(@, [op |-> op, ok |-> ok, id |-> id])]

\* kvsWebSocket.on('message') with action 'answer': handleWebRTCAnswer up to
\* `await peerConnection.setRemoteDescription`, which is accepted only by an
\* open peer connection that has a local offer
ws_message_answer ==
    /\ frameReady /\ variant = "kvs"
    /\ kvsWebSocket = "OPEN" /\ Len(sigMsgs) < workload.sigmsgs
    /\ sigMsgs' = Append(sigMsgs, "answer")
    /\ IF peer.made
       THEN /\ LogActs(<<"KVS_MESSAGE_RECEIVED", "WEBRTC_ANSWER_RECEIVED",
                         "WEBRTC_ANSWER_HANDLED">>)
            /\ peer' = IF peer.sig = "have-local-offer" /\ ~peer.closed
                       THEN Settled([peer EXCEPT !.sig = "stable",
                                                 !.remote = TRUE],
                                    "answer", TRUE, 0)
                       ELSE Settled(peer, "answer", FALSE, 0)
       ELSE /\ LogActs(<<"KVS_MESSAGE_RECEIVED", "WEBRTC_ANSWER_RECEIVED",
                         "WEBRTC_ANSWER_HANDLED",
                         "WEBRTC_ANSWER_HANDLING_ERROR">>)
            /\ UNCHANGED peer
    /\ UNCHANGED <<idVars, clockVars, pc, exitCode, novaSonicSession, aiCalls,
                   novaSonicResponses, kvsState, kvsWebSocket, wsAcked,
                   webRTCState, inVars, pcmOut, timerVars, runs, audioTimer,
                   listening, ms>>

\* handleWebRTCAnswer resumes after setRemoteDescription(answer)
handleWebRTCAnswerDone ==
    /\ alive /\ variant = "kvs"
    /\ peer.pending # <<>> /\ Head(peer.pending).op = "answer"
    /\ peer' = [peer EXCEPT !.pending = Tail(@)]
    /\ IF Head(peer.pending).ok
       THEN LogActs(<<"WEBRTC_ANSWER_SET",
                      "WEBRTC_ICE_CANDIDATES_WILL_BE_HANDLED">>)
       ELSE LogActs(<<"WEBRTC_ANSWER_HANDLING_ERROR">>)
    /\ UNCHANGED <<idVars, clockVars, pc, exitCode, novaSonicSession, aiCalls,
                   novaSonicResponses, sigVars, webRTCState, inVars, pcmOut,
                   timerVars, runs, audioTimer, listening, ms>>

\* kvsWebSocket.on('message') with action 'offer': handleWebRTCOffer up to
\* `await peerConnection.setRemoteDescription`.  An open peer connection
\* accepts a remote offer in the stable state; one that has a local offer
\* rejects it or rolls its own offer back, depending on the wrtc build.
ws_message_offer ==
    /\ frameReady /\ variant = "kvs" /\ workload.sdp \in {"any", "offer"}
    /\ kvsWebSocket = "OPEN" /\ Len(sigMsgs) < workload.sigmsgs
    /\ sigMsgs' = Append(sigMsgs, "offer")
    /\ IF peer.made
       THEN /\ LogActs(<<"KVS_MESSAGE_RECEIVED", "WEBRTC_OFFER_RECEIVED",
                         "WEBRTC_OFFER_HANDLED">>)
            /\ \E ok \in IF peer.closed THEN {FALSE}
                         ELSE IF peer.sig = "stable" THEN {TRUE}
                         ELSE IF peer.sig = "have-local-offer" THEN BOOLEAN
                         ELSE {FALSE} :
                  peer' = IF ok
                          THEN Settled([peer EXCEPT !.sig = "have-remote-offer",
                                                    !.remote = TRUE],
                                       "offer", TRUE, 0)
                          ELSE Settled(peer, "offer", FALSE, 0)
       ELSE /\ LogActs(<<"KVS_MESSAGE_RECEIVED", "WEBRTC_OFFER_RECEIVED",
                         "WEBRTC_OFFER_HANDLED",
                         "WEBRTC_OFFER_HANDLING_ERROR">>)
            /\ UNCHANGED peer
    /\ UNCHANGED <<idVars, clockVars, pc, exitCode, novaSonicSession, aiCalls,
                   novaSonicResponses, kvsState, kvsWebSocket, wsAcked,
                   webRTCState, inVars, pcmOut, timerVars, runs, audioTimer,
                   listening, ms>>

\* handleWebRTCOffer resumes after one of its three awaits.  After
\* setRemoteDescription(offer) it logs WEBRTC_OFFER_SET and calls
\* createAnswer; after createAnswer it calls setLocalDescription(answer);
\* both need the remote offer to be in place at the call.  After
\* setLocalDescription(answer) the answer is handed to kvsWebSocket.send,
\* the only test being that kvsWebSocket is not null: on a socket that is
\* no longer open send() either discards the message or throws into the
\* handler's catch, depending on the release of the ws library.  A rejected
\* await goes to the catch.
handleWebRTCOfferDone ==
    /\ alive /\ variant = "kvs"
    /\ peer.pending # <<>>
    /\ Head(peer.pending).op \in {"offer", "createAnswer", "localAnswer"}
    /\ LET op == Head(peer.pending).op
           p == [peer EXCEPT !.pending = Tail(@)]
           accepted == p.sig = "have-remote-offer" /\ ~p.closed
       IN  CASE ~Head(peer.pending).ok ->
                  /\ peer' = p
                  /\ LogActs(<<"WEBRTC_OFFER_HANDLING_ERROR">>)
             [] Head(peer.pending).ok /\ op = "offer" ->
                  /\ peer' = Settled(p, "createAnswer", accepted, 0)
                  /\ LogActs(<<"WEBRTC_OFFER_SET">>)
             [] Head(peer.pending).ok /\ op = "createAnswer" ->
                  /\ peer' = Settled(IF accepted
                                     THEN [p EXCEPT !.sig = "stable",
                                                    !.local = TRUE]
                                     ELSE p,
                                     "localAnswer", accepted, 0)
                  /\ LogActs(<<>>)
             [] OTHER ->
                  /\ peer' = p
                  /\ \E sendThrows \in (IF kvsWebSocket = "OPEN" THEN {FALSE}
                                                                  ELSE BOOLEAN) :
                        LogActs(<<"WEBRTC_ANSWER_CREATED_AND_SET",
                                  IF sendThrows THEN "WEBRTC_OFFER_HANDLING_ERROR"
                                                ELSE "WEBRTC_ANSWER_SENT">>)
    /\ UNCHANGED <<idVars, clockVars, pc, exitCode, novaSonicSession, aiCalls,
                   novaSonicResponses, sigVars, webRTCState, inVars, pcmOut,
                   timerVars, runs, audioTimer, listening, ms>>

\* kvsWebSocket.on('message') with action 'ice-candidate': handleICECandidate
\* up to `await peerConnection.addIceCandidate`, which an open peer
\* connection accepts once it has a remote description.  Candidates are
\* numbered in the order of their arrival.
ws_message_ice ==
    /\ frameReady /\ variant = "kvs"
    /\ workload.sdp = "any" \/ (workload.sdp = "trickle" /\ wsAcked)
    /\ kvsWebSocket = "OPEN" /\ Len(sigMsgs) < workload.sigmsgs
    /\ sigMsgs' = Append(sigMsgs, "ice-candidate")
    /\ LET id == peer.iceIn + 1
           p == [peer EXCEPT !.iceIn = id]
       IN  IF peer.made
           THEN /\ LogActs(<<"KVS_MESSAGE_RECEIVED", "ICE_CANDIDATE_RECEIVED",
                             "ICE_CANDIDATE_HANDLED">>)
                /\ peer' = Settled([p EXCEPT !.iceTried = Append(@, id)],
                                   "ice", p.remote /\ ~p.closed, id)
           ELSE /\ LogActs(<<"KVS_MESSAGE_RECEIVED", "ICE_CANDIDATE_RECEIVED",
                             "ICE_CANDIDATE_HANDLED",
                             "ICE_CANDIDATE_ADDING_ERROR">>)
                /\ peer' = p
    /\ UNCHANGED <<idVars, clockVars, pc, exitCode, novaSonicSession, aiCalls,
                   novaSonicResponses, kvsState, kvsWebSocket, wsAcked,
                   webRTCState, inVars, pcmOut, timerVars, runs, audioTimer,
                   listening, ms>>

\* handleICECandidate, had its catch given the peer connection up
handleICECandidateDone_Fatal ==
    /\ alive /\ variant = "kvs"
    /\ peer.pending # <<>> /\ Head(peer.pending).op = "ice"
    /\ IF Head(peer.pending).ok
       THEN /\ peer' = [peer EXCEPT !.pending = Tail(@)]
            /\ LogActs(<<"ICE_CANDIDATE_ADDED">>)
       ELSE /\ peer' = [peer EXCEPT !.pending = Tail(@), !.closed = TRUE,
                                    !.state = "closed", !.sig = "closed"]
            /\ LogActs(<<"ICE_CANDIDATE_ADDING_ERROR">>)
    /\ UNCHANGED <<idVars, clockVars, pc, exitCode, novaSonicSession, aiCalls,
                   novaSonicResponses, sigVars, webRTCState, inVars, pcmOut,
                   timerVars, runs, audioTimer, listening, ms>>

\* handleICECandidate resumes after addIceCandidate
handleICECandidateDone ==
    /\ alive /\ variant = "kvs"
    /\ peer.pending # <<>> /\ Head(peer.pending).op = "ice"
    /\ peer' = [peer EXCEPT !.pending = Tail(@)]
    /\ IF Head(peer.pending).ok
       THEN LogActs(<<"ICE_CANDIDATE_ADDED">>)
       ELSE LogActs(<<"ICE_CANDIDATE_ADDING_ERROR">>)
    /\ UNCHANGED <<idVars, clockVars, pc, exitCode, novaSonicSession, aiCalls,
                   novaSonicResponses, sigVars, webRTCState, inVars, pcmOut,
                   timerVars, runs, audioTimer, listening, ms>>

\* frames that end in the catch of the message handler: a payload JSON.parse
\* rejects, and the payload `null`, which parses, is logged as received and
\* then fails at the read of message.action
UnparsedFrames == {"unparseable", "null"}

UnparsedTags(frame) ==
    IF frame = "null" THEN <<"KVS_MESSAGE_RECEIVED", "KVS_MESSAGE_PARSE_ERROR">>
                      ELSE <<"KVS_MESSAGE_PARSE_ERROR">>

\* the catch of the message handler, had it given the connection up
ws_message_unparseable_Fatal ==
    /\ frameReady /\ variant = "kvs"
    /\ workload.faults \/ workload.sdp \in {"any", "junk"}
    /\ kvsWebSocket = "OPEN" /\ Len(sigMsgs) < workload.sigmsgs
    /\ \E frame \in UnparsedFrames :
          /\ (frame = "null") => (workload.sdp = "junk")
          /\ sigMsgs' = Append(sigMsgs, frame)
          /\ LogActs(UnparsedTags(frame))
    /\ kvsWebSocket' = "CLOSING"
    /\ UNCHANGED <<idVars, clockVars, pc, exitCode, novaSonicSession, aiCalls,
                   novaSonicResponses, kvsState, wsAcked,
                   webRTCState, peer, inVars, pcmOut, timerVars, runs,
                   audioTimer, listening, ms>>

\* kvsWebSocket.on('message') whose try block throws: the catch only logs
ws_message_unparseable ==
    /\ frameReady /\ variant = "kvs"
    /\ workload.faults \/ workload.sdp \in {"any", "junk"}
    /\ kvsWebSocket = "OPEN" /\ Len(sigMsgs) < workload.sigmsgs
    /\ \E frame \in UnparsedFrames :
          /\ (frame = "null") => (workload.sdp = "junk")
          /\ sigMsgs' = Append(sigMsgs, frame)
          /\ LogActs(UnparsedTags(frame))
    /\ UNCHANGED <<idVars, clockVars, pc, exitCode, novaSonicSession, aiCalls,
                   novaSonicResponses, kvsState, kvsWebSocket, wsAcked,
                   webRTCState, peer, inVars, pcmOut, timerVars, runs,
                   audioTimer, listening, ms>>

\* kvsWebSocket.on('message') with a payload that parses and has no action
\* the handler knows ({}, {action:'status'}): the frame is logged as received
ws_message_other ==
    /\ frameReady /\ variant = "kvs"
    /\ workload.sdp = "junk"
    /\ kvsWebSocket = "OPEN" /\ Len(sigMsgs) < workload.sigmsgs
    /\ sigMsgs' = Append(sigMsgs, "other")
    /\ LogActs(<<"KVS_MESSAGE_RECEIVED">>)
    /\ UNCHANGED <<idVars, clockVars, pc, exitCode, novaSonicSession, aiCalls,
                   novaSonicResponses, kvsState, kvsWebSocket, wsAcked,
                   webRTCState, peer, inVars, pcmOut, timerVars, runs,
                   audioTimer, listening, ms>>

\* kvsWebSocket.on('error'): the handler logs and calls reject(), which
\* settles the promise of connectToKVSWebSocket while it is still pending
\* and is a no-op once it is resolved or rejected; the catch blocks run
\* after the handler has returned
ws_error ==
    /\ frameReady /\ variant = "kvs" /\ workload.faults
    /\ kvsWebSocket \in {"CONNECTING", "OPEN"}
    /\ Len(sigMsgs) < workload.sigmsgs
    /\ sigMsgs' = Append(sigMsgs, "error")
    /\ LogActs(<<"KVS_WEBSOCKET_ERROR">>)
    /\ pc' = IF pc = "wsConnect" THEN "wsRejected" ELSE pc
    /\ UNCHANGED <<idVars, clockVars, exitCode, novaSonicSession, aiCalls,
                   novaSonicResponses, kvsState, kvsWebSocket, wsAcked,
                   webRTCState, peer, inVars, pcmOut, timerVars, runs,
                   audioTimer, listening, ms>>

\* kvsWebSocket.on('close'): the handler only logs
ws_close ==
    /\ frameReady /\ variant = "kvs"
    /\ \/ workload.faults /\ kvsWebSocket \in {"CONNECTING", "OPEN"}
       \/ kvsWebSocket = "CLOSING"
    /\ kvsWebSocket' = "CLOSED"
    /\ LogActs(<<"KVS_WEBSOCKET_CLOSED">>)
    /\ UNCHANGED <<idVars, clockVars, pc, exitCode, novaSonicSession, aiCalls,
                   novaSonicResponses, kvsState, wsAcked, sigMsgs, webRTCState,
                   peer, inVars, pcmOut, timerVars, runs, audioTimer,
                   listening, ms>>

\* initializeWebRTCConnection resumes after createOffer.  With an offer it
\* calls setLocalDescription(offer), which the peer connection accepts
\* unless a remote offer is in place, and awaits it; a rejected createOffer
\* goes to the catch, which swallows it: connectToKVSSignalingChannel
\* returns and startServer arms the idle timer and awaits fastify.listen
createOfferDone ==
    /\ alive /\ variant = "kvs"
    /\ pc = "createOffer"
    /\ \E ok \in IF peer.closed THEN {FALSE} ELSE BOOLEAN :
          IF ok
          THEN /\ LET accepted == peer.sig \in {"stable", "have-local-offer"}
                  IN  peer' = Settled([peer EXCEPT
                                          !.sig = IF accepted
                                                  THEN "have-local-offer" ELSE @,
                                          !.local = @ \/ accepted],
                                      "local", accepted, 0)
               /\ pc' = "setLocalDescription"
               /\ UNCHANGED <<logVars, timerVars>>
          ELSE /\ LogActs(<<"WEBRTC_INITIALIZATION_FAILED",
                            "SESSION_TIMEOUT_MONITORING_STARTED">>)
               /\ startSessionTimeoutMonitoring
               /\ pc' = "listen"
               /\ UNCHANGED peer
    /\ UNCHANGED <<idVars, clockVars, exitCode, novaSonicSession, aiCalls,
                   novaSonicResponses, sigVars, webRTCState, inVars, pcmOut,
                   runs, audioTimer, listening, ms>>

\* initializeWebRTCConnection resumes after setLocalDescription(offer): the
\* offer is logged and sent on an open socket; a rejection goes to the
\* catch.  Either way startServer then arms the idle timer and awaits
\* fastify.listen
setLocalDescriptionDone ==
    /\ alive /\ variant = "kvs"
    /\ pc = "setLocalDescription"
    /\ peer.pending # <<>> /\ Head(peer.pending).op = "local"
    /\ peer' = [peer EXCEPT !.pending = Tail(@)]
    /\ IF Head(peer.pending).ok
       THEN LogActs(<<"WEBRTC_OFFER_CREATED",
                      IF kvsWebSocket = "OPEN" THEN "WEBRTC_OFFER_SENT"
                                               ELSE "WEBRTC_OFFER_NOT_SENT",
                      "SESSION_TIMEOUT_MONITORING_STARTED">>)
       ELSE LogActs(<<"WEBRTC_INITIALIZATION_FAILED",
                      "SESSION_TIMEOUT_MONITORING_STARTED">>)
    /\ startSessionTimeoutMonitoring
    /\ pc' = "listen"
    /\ UNCHANGED <<idVars, clockVars, exitCode, novaSonicSession, aiCalls,
                   novaSonicResponses, sigVars, webRTCState, inVars, pcmOut,
                   runs, audioTimer, listening, ms>>

\* WebRTCBridgeServer.ts connectToKVSSignalingChannel resumes after its
\* simulated one-second connection delay; initializeWebRTCConnection runs
\* up to its two-second delay
simKvsDelayDone ==
    /\ alive /\ variant = "sim"
    /\ pc = "simKvsDelay"
    /\ waitDue <= now
    /\ waitDue' = now + SIM_WEBRTC_WAIT_MS
    /\ kvsState' = "connected"
    /\ LogActs(<<"KVS_SIGNALING_CONNECTED", "WEBRTC_INITIALIZATION_STARTED">>)
    /\ pc' = "simRtcDelay"
    /\ UNCHANGED <<idVars, now, ticks, exitCode, novaSonicSession, aiCalls,
                   novaSonicResponses, kvsWebSocket, wsAcked, sigMsgs,
                   webRTCState, peer, inVars, pcmOut, timerVars, runs,
                   audioTimer, listening, ms>>

\* WebRTCBridgeServer.ts initializeWebRTCConnection after its two-second
\* delay: startAudioProcessing starts the setInterval; startServer goes on
\* to fastify.listen
simRtcDelayDone ==
    /\ alive /\ variant = "sim"
    /\ pc = "simRtcDelay"
    /\ waitDue <= now
    /\ waitDue' = -1
    /\ webRTCState' = "connected"
    /\ LogActs(<<"WEBRTC_CONNECTION_ESTABLISHED", "AUDIO_PROCESSING_STARTED">>)
    /\ audioTimer' = [kind |-> "interval", due |-> now + AUDIO_INTERVAL_MS]
    /\ pc' = "listen"
    /\ UNCHANGED <<idVars, now, ticks, exitCode, novaSonicSession, aiCalls,
                   novaSonicResponses, sigVars, peer, inVars, pcmOut,
                   timerVars, runs, listening, ms>>

\* `await fastify.listen` settles
listenDone ==
    /\ alive /\ variant \in SingleCall
    /\ pc = "listen"
    /\ \E ok \in BOOLEAN :
          IF ok
          THEN /\ LogActs(<<"SERVER_STARTED">>)
               /\ pc' = "running"
               /\ listening' = TRUE
               /\ audioTimer' = IF variant = "simple"
                                  THEN [kind |-> "oneshot",
                                        due |-> now + TEST_AUDIO_DELAY_MS]
                                  ELSE audioTimer
               /\ UNCHANGED exitCode
          ELSE /\ StartFailed(<<>>)
               /\ UNCHANGED <<listening, audioTimer>>
    /\ UNCHANGED <<idVars, clockVars, novaSonicSession, aiCalls,
                   novaSonicResponses, sigVars, webRTCState, peer, inVars,
                   pcmOut, timerVars, runs, ms>>

(***************************************************************************)
(* Base64 transport framing, as Buffer.from(text, 'base64') decodes it.    *)
(* Text is a sequence of character codes, a buffer a sequence of bytes.    *)
(***************************************************************************)
B64Value_UpperOnly(c) ==
    CASE c \in 65..90 -> c - 65
      [] c \in 97..122 -> c - 97
      [] c \in 48..57 -> c + 4
      [] c \in {43, 45} -> 62
      [] c \in {47, 95} -> 63
      [] OTHER -> -1

B64Value(c) ==
    CASE c \in 65..90 -> c - 65
      [] c \in 97..122 -> c - 71
      [] c \in 48..57 -> c + 4
      [] c \in {43, 45} -> 62
      [] c \in {47, 95} -> 63
      [] OTHER -> -1

RECURSIVE B64Bytes(_)
B64Bytes(v) ==
    IF Len(v) < 2 THEN <<>>
    ELSE LET b1 == v[1] * 4 + v[2] \div 16
         IN  IF Len(v) = 2 THEN <<b1>>
             ELSE LET b2 == (v[2] % 16) * 16 + v[3] \div 4
                  IN  IF Len(v) = 3 THEN <<b1, b2>>
                      ELSE <<b1, b2, (v[3] % 4) * 64 + v[4]>>
                           \o B64Bytes(SubSeq(v, 5, Len(v)))

\* characters outside the alphabet are skipped, '=' ends the data
Base64Decode(text) ==
    LET pads == {i \in 1..Len(text) : text[i] = 61}
        stop == IF pads = {} THEN Len(text) + 1
                ELSE CHOOSE i \in pads : \A j \in pads : i <= j
        data == SelectSeq(SubSeq(text, 1, stop - 1), LAMBDA c : B64Value(c) >= 0)
    IN  B64Bytes([i \in 1..Len(data) |-> B64Value(data[i])])

\* payloads of the AI events the model delivers: no content field, the
\* empty string, "Q" (decodes to no byte) and "QUJD" (decodes to "ABC") for
\* audio; no content field or "Hi" for text
AudioPayloads == {NoContent, <<>>, <<81>>, <<81, 85, 74, 68>>}
TextPayloads == {NoContent, <<72, 105>>}

\* Buffer.concat of a list of buffers
RECURSIVE Flatten(_)
Flatten(batches) ==
    IF batches = <<>> THEN <<>>
    ELSE Head(batches) \o Flatten(Tail(batches))

\* buffer.toString('base64'): the text, padded with '=' to a multiple of four
B64Char(v) ==
    CASE v < 26 -> v + 65
      [] v < 52 -> v + 71
      [] v < 62 -> v - 4
      [] v = 62 -> 43
      [] OTHER -> 47

RECURSIVE Base64Encode(_)
Base64Encode(b) ==
    IF b = <<>> THEN <<>>
    ELSE LET c1 == B64Char(b[1] \div 4)
         IN  IF Len(b) = 1 THEN <<c1, B64Char((b[1] % 4) * 16), 61, 61>>
             ELSE LET c2 == B64Char((b[1] % 4) * 16 + (b[2] \div 16))
                  IN  IF Len(b) = 2
                      THEN <<c1, c2, B64Char((b[2] % 16) * 4), 61>>
                      ELSE <<c1, c2, B64Char((b[2] % 16) * 4 + (b[3] \div 64)),
                             B64Char(b[3] % 64)>>
                           \o Base64Encode(SubSeq(b, 4, Len(b)))

\* Buffer.from(text, 'utf8') for character codes below 2048
RECURSIVE Utf8Bytes(_)
Utf8Bytes(text) ==
    IF text = <<>> THEN <<>>
    ELSE (IF Head(text) < 128 THEN <<Head(text)>>
          ELSE <<192 + (Head(text) \div 64), 128 + (Head(text) % 64)>>)
         \o Utf8Bytes(Tail(text))

\* mulaw.decode of alawmulaw: one 16-bit sample for each companded byte
MulawSegment == <<0, 132, 396, 924, 1980, 4092, 8316, 16764>>

MulawDecodeSample(byte) ==
    LET u == 255 - byte
        exponent == (u \div 16) % 8
        mantissa == u % 16
        sample == MulawSegment[exponent + 1] + mantissa * (2 ^ (exponent + 3))
    IN  IF u >= 128 THEN -sample ELSE sample

MulawDecode(bytes) == [i \in 1..Len(bytes) |-> MulawDecodeSample(bytes[i])]

\* Buffer.from(int16Array.buffer): the samples' bytes, low byte first
RECURSIVE PcmBytes(_)
PcmBytes(samples) ==
    IF samples = <<>> THEN <<>>
    ELSE LET w == (Head(samples) + 65536) % 65536
         IN  <<w % 256, w \div 256>> \o PcmBytes(Tail(samples))

(***************************************************************************)
(* Peer connection events (part_004 initializeWebRTCConnection)            *)
(***************************************************************************)
\* the connectionState an open peer connection can report next: its
\* transports start once a description is set, connect once the remote one
\* is set, can fail from the start, and a connection that was lost either
\* fails or comes back
NextPeerStates(p) ==
    CASE p.state = "new" /\ (p.sig # "stable" \/ p.remote) ->
           {"connecting", "failed"}
      [] p.state = "connecting" /\ p.remote -> {"connected", "failed"}
      [] p.state = "connected" -> {"disconnected"}
      [] p.state = "disconnected" ->
           IF p.reconnects < workload.reconnects THEN {"connected", "failed"}
                                                ELSE {"failed"}
      [] OTHER -> {}

\* peerConnection.onconnectionstatechange
peer_connectionstatechange ==
    /\ taskReady /\ variant = "kvs"
    /\ workload.media /\ envActs /\ peer.made /\ ~peer.closed
    /\ \E st \in NextPeerStates(peer) :
          /\ peer' = [peer EXCEPT
                         !.state = st,
                         !.reconnects = IF peer.state = "disconnected"
                                           /\ st = "connected"
                                        THEN @ + 1 ELSE @]
          /\ IF st = "connected"
             THEN /\ webRTCState' = "connected"
                  /\ LogActs(<<"WEBRTC_CONNECTION_STATE_CHANGE",
                               "WEBRTC_CONNECTION_ESTABLISHED",
                               "AUDIO_PROCESSING_STARTED",
                               "AUDIO_PROCESSING_READY">>)
             ELSE /\ LogActs(<<"WEBRTC_CONNECTION_STATE_CHANGE">>)
                  /\ UNCHANGED webRTCState
    /\ UNCHANGED <<idVars, clockVars, pc, exitCode, novaSonicSession, aiCalls,
                   novaSonicResponses, sigVars, inVars, pcmOut, timerVars,
                   runs, audioTimer, listening, ms>>

\* peerConnection.onicecandidate with a candidate (the event that ends the
\* gathering carries none and is ignored): the candidate is logged and sent
\* on an open socket.  The peer connection gathers candidates once it has a
\* local description.
peer_icecandidate ==
    /\ taskReady /\ variant = "kvs"
    /\ peer.made /\ ~peer.closed /\ peer.local
    /\ peer.iceOut < workload.candidates
    /\ peer' = [peer EXCEPT !.iceOut = @ + 1]
    /\ LogActs(<<"ICE_CANDIDATE_GENERATED",
                 IF kvsWebSocket = "OPEN" THEN "ICE_CANDIDATE_SENT"
                                          ELSE "ICE_CANDIDATE_NOT_SENT">>)
    /\ UNCHANGED <<idVars, clockVars, pc, exitCode, novaSonicSession, aiCalls,
                   novaSonicResponses, sigVars, webRTCState, inVars, pcmOut,
                   timerVars, runs, audioTimer, listening, ms>>

\* peerConnection.ontrack for the audio track of the call: the track is
\* kept as audioReceiver and the script processor is attached to it.  Node
\* itself has no AudioContext: there `new AudioContext()` throws a
\* ReferenceError out of the handler before a processor exists, and the wrtc
\* build either drops the error of a handler or lets it end the process.
peer_track ==
    /\ taskReady /\ variant = "kvs"
    /\ workload.media /\ peer.made /\ ~peer.closed /\ peer.remote
    /\ ~peer.receiver
    /\ peer' = [peer EXCEPT !.receiver = TRUE, !.track = workload.webaudio]
    /\ \E uncaught \in (IF workload.webaudio THEN {FALSE} ELSE BOOLEAN) :
          exitCode' = IF uncaught THEN 1 ELSE exitCode
    /\ UNCHANGED <<idVars, clockVars, pc, novaSonicSession, aiCalls,
                   logVars, novaSonicResponses, sigVars, webRTCState, inVars,
                   pcmOut, timerVars, runs, audioTimer, listening, ms>>

(***************************************************************************)
(* Inbound audio of the single-call variants                               *)
(***************************************************************************)
\* the caller side can deliver an inbound frame: onaudioprocess of the
\* script processor that ontrack attached, which runs on the clock of its
\* audio context whatever the state of the peer connection (kvs), POST
\* /test-audio (simple)
FrameSource ==
    CASE variant = "kvs" -> IF peer.track THEN {"track"} ELSE {}
      [] variant = "simple" -> IF listening THEN {"post"} ELSE {}
      [] OTHER -> {}

\* the n-th chunk an audio source hands over: n 16-bit samples off the
\* received track (kvs), the zero-filled placeholder (sim) and the 440 Hz
\* tone (simple), cut down to their first two and three samples
InboundChunk(n) ==
    CASE variant = "kvs" -> [j \in 1..(2 * n) |-> (n * 97 + j * 61) % 256]
      [] variant = "sim" -> <<0, 0>>
      [] OTHER -> PcmBytes(<<0, 5549, 10443>>)

\* the buffer the variant passes to streamAudio for a chunk
StreamAudioBuffer(chunk) ==
    IF variant = "sim" THEN PcmBytes(MulawDecode(chunk))
    ELSE Utf8Bytes(Base64Encode(chunk))

\* processAudioChunk (kvs, sim) / simulateAudioInput (simple) up to
\* `await novaSonicSession.streamAudio`
AudioIn ==
    /\ framesIn' = framesIn + 1
    /\ IF novaSonicSession
       THEN /\ aiCalls' = Call(aiCalls, "streamAudio")
            /\ streamedAudio' =
                  Append(streamedAudio,
                         [frame |-> framesIn + 1,
                          buffer |-> StreamAudioBuffer(InboundChunk(framesIn + 1))])
            /\ audioPending' = audioPending + 1
            /\ LogActs(IF variant = "simple" THEN <<"SIMULATED_AUDIO_SENT">>
                                             ELSE <<>>)
       ELSE /\ LogActs(IF variant = "simple"
                       THEN <<"SIMULATED_AUDIO_SENT", "SIMULATED_AUDIO_ERROR">>
                       ELSE <<>>)
            /\ UNCHANGED <<aiCalls, streamedAudio, audioPending>>
    /\ UNCHANGED <<idVars, clockVars, pc, exitCode, novaSonicSession,
                   novaSonicResponses, sigVars, webRTCState, peer, evVars,
                   signals, pcmOut, timerVars, runs, listening, ms>>

\* a frame handed over by the caller side
processAudioChunk ==
    /\ taskReady /\ variant \in SingleCall
    /\ framesIn < workload.frames
    /\ FrameSource # {}
    /\ AudioIn
    /\ UNCHANGED audioTimer

\* the callback of the setInterval of startAudioProcessing (sim), which is
\* never cleared, and of the 5 s setTimeout of startServer (simple); in a
\* workload that keeps to the order of a call the streamAudio call of one
\* frame has settled when the next frame is due
audioTimerDue ==
    /\ taskReady /\ variant \in SingleCall
    /\ audioTimer.kind # "none" /\ audioTimer.due <= now
    /\ audioTimer.kind = "interval" => framesIn < workload.frames
    /\ workload.inorder => audioPending = 0
    /\ AudioIn
    /\ audioTimer' = IF audioTimer.kind = "interval"
                      THEN [audioTimer EXCEPT !.due = @ + AUDIO_INTERVAL_MS]
                      ELSE NoAudioTimer

\* the awaited streamAudio settles
streamAudioDone ==
    /\ alive /\ variant \in SingleCall
    /\ audioPending > 0
    /\ audioPending' = audioPending - 1
    /\ \E ok \in (IF workload.steady THEN {TRUE} ELSE BOOLEAN) :
          /\ aiCalls' = Settle(aiCalls, "streamAudio", ok)
          /\ LogActs(CASE variant = "simple" /\ ok -> <<>>
                       [] variant = "simple" /\ ~ok -> <<"SIMULATED_AUDIO_ERROR">>
                       [] variant # "simple" /\ ok -> <<"AUDIO_SENT_TO_NOVA_SONIC">>
                       [] OTHER -> <<"AUDIO_PROCESSING_ERROR">>)
    /\ UNCHANGED <<idVars, clockVars, pc, exitCode, novaSonicSession,
                   novaSonicResponses, sigVars, webRTCState, peer, frameVars,
                   evVars, signals, pcmOut, timerVars, runs, audioTimer,
                   listening, ms>>

(***************************************************************************)
(* AI session events (setupNovaSonicEventHandlers)                         *)
(***************************************************************************)
\* the stream is open and delivers events to the registered handlers
eventsFlow ==
    /\ novaSonicSession
    /\ aiCalls["initiateSession"].called > 0
    /\ aiCalls["close"].ok = 0

\* the events of a session besides its responses and errors
ControlEvents == {"sessionStart", "toolUse", "toolEnd", "toolResult",
                  "streamComplete"}

\* what the AI session emits next: in a workload that keeps to the order of
\* a turn, event n of the call is the n-th of the cycle contentStart,
\* textOutput, audioOutput, contentEnd; in a workload of session and tool
\* events, any of those; in the others, responses in any order and, where
\* the workload has no clock advances, errors among them
Emits(type) ==
    IF workload.inorder
    THEN type = <<"contentStart", "textOutput", "audioOutput",
                  "contentEnd">>[(eventsIn % 4) + 1]
    ELSE IF workload.control THEN type \in ControlEvents
    ELSE \/ type \in {"textOutput", "audioOutput"}
         \/ type = "error" /\ workload.ticks = 0

\* an 'any' handler that leaves the audio frames of a response out of the
\* activity log
onEvent_any_SkipAudio(seen, type) ==
    [seen |-> [totalEvents |-> seen.totalEvents + 1, eventType |-> type],
     entries |-> IF type = "audioOutput" THEN <<>>
                 ELSE <<Entry("NOVA_SONIC_EVENT_RECEIVED", type)>>]

\* the handler registered with onEvent('any'): it counts the event and logs
\* NOVA_SONIC_EVENT_RECEIVED with the type of the event
onEvent_any(seen, type) ==
    [seen |-> [totalEvents |-> seen.totalEvents + 1, eventType |-> type],
     entries |-> <<Entry("NOVA_SONIC_EVENT_RECEIVED", type)>>]

\* The dispatcher of the AI session (./src/nova-client, not among the
\* sources; taken from the specification): every event is handed to the
\* handler registered for its tag and to the wildcard handler, whether or
\* not the tag handler returns normally.  Which of the two is called first
\* is not guaranteed; a session keeps to one order (wildcardFirst).
\* own lists the events the tag handler logs.
dispatchEvent(type, own) ==
    LET any == onEvent_any(anyEvents, type)
    IN  /\ anyEvents' = any.seen
        /\ LogEntries(IF wildcardFirst THEN any.entries \o Acts(own)
                                        ELSE Acts(own) \o any.entries)

\* resetSessionTimeout
resetSessionTimeout ==
    /\ lastNovaSonicResponseTime' = now
    /\ ArmSessionTimeout

\* sendAudioResponse without the connectionState test
sendAudioResponse_Unguarded(buffer) ==
    [peer |-> [peer EXCEPT !.sender = TRUE],
     out |-> <<Base64Decode(buffer)>>,
     tags |-> <<"AUDIO_TRACK_ADDED_TO_WEBRTC", "AUDIO_SENT_TO_AMAZON_CONNECT">>]

\* sendAudioResponse of part_004, given the decoded buffer: only a peer
\* connection whose connectionState is 'connected' takes the audio.  Where
\* the runtime has no AudioContext, `new AudioContext()` throws into the
\* catch of the function, which logs the error.
sendAudioResponse(buffer) ==
    IF peer.made /\ peer.state = "connected"
    THEN IF workload.webaudio
         THEN [peer |-> [peer EXCEPT !.sender = TRUE],
               out |-> <<Base64Decode(buffer)>>,
               tags |-> <<"AUDIO_TRACK_ADDED_TO_WEBRTC",
                          "AUDIO_SENT_TO_AMAZON_CONNECT">>]
         ELSE [peer |-> peer, out |-> <<>>, tags |-> <<"AUDIO_RESPONSE_ERROR">>]
    ELSE [peer |-> peer,
          out |-> <<>>,
          tags |-> <<"WEBRTC_NOT_READY_FOR_AUDIO", "AUDIO_SENT_TO_AMAZON_CONNECT">>]

\* a textOutput event.  logNovaSonicResponse dereferences the content, so
\* in the handler of onEvent('textOutput') an event without content throws
\* before the activity record and the timer reset.
onEvent_textOutput ==
    /\ taskReady /\ variant \in SingleCall
    /\ eventsFlow /\ envActs /\ eventsIn < workload.events /\ Emits("textOutput")
    /\ eventsIn' = eventsIn + 1 /\ UNCHANGED fatalError
    /\ \E content \in TextPayloads :
          IF content = NoContent
          THEN /\ dispatchEvent("textOutput", <<>>)
               /\ UNCHANGED <<novaSonicResponses, sessionTimeoutId,
                              pendingTimers, timerSeq, lastNovaSonicResponseTime>>
          ELSE /\ novaSonicResponses' = Append(novaSonicResponses, content)
               /\ IF variant = "sim"
                  THEN /\ dispatchEvent("textOutput", <<>>)
                       /\ UNCHANGED <<sessionTimeoutId, pendingTimers, timerSeq,
                                      lastNovaSonicResponseTime>>
                  ELSE /\ dispatchEvent("textOutput",
                                        <<"NOVA_SONIC_TEXT_RESPONSE">>)
                       /\ resetSessionTimeout
    /\ lastEventAt' = now
    /\ UNCHANGED <<idVars, clockVars, pc, exitCode, novaSonicSession, aiCalls,
                   sigVars, webRTCState, peer, frameVars, audioPending, signals,
                   pcmOut, timeoutCleanups, runs, audioTimer, listening, ms>>

\* a contentStart or contentEnd event: the handlers of
\* onEvent('contentStart') and onEvent('contentEnd') only log
onEvent_content ==
    /\ taskReady /\ variant \in SingleCall
    /\ eventsFlow /\ envActs /\ eventsIn < workload.events
    /\ eventsIn' = eventsIn + 1 /\ UNCHANGED fatalError
    /\ \E type \in {"contentStart", "contentEnd"} :
          /\ Emits(type)
          /\ dispatchEvent(type,
                           <<IF type = "contentStart"
                             THEN "NOVA_SONIC_CONTENT_START"
                             ELSE "NOVA_SONIC_CONTENT_END">>)
    /\ UNCHANGED <<idVars, clockVars, pc, exitCode, novaSonicSession, aiCalls,
                   novaSonicResponses, sigVars, webRTCState, peer, frameVars,
                   audioPending, signals, pcmOut, timerVars, runs, audioTimer,
                   listening, ms>>

\* the record a handler of a session or tool event writes; part_005
\* registers handlers for streamComplete and sessionStart only
ControlTags(type) ==
    IF variant = "simple" /\ type \notin {"streamComplete", "sessionStart"}
    THEN <<>>
    ELSE <<CASE type = "sessionStart" -> "NOVA_SONIC_SESSION_START"
             [] type = "toolUse" -> "NOVA_SONIC_TOOL_USE"
             [] type = "toolEnd" -> "NOVA_SONIC_TOOL_END"
             [] type = "toolResult" -> "NOVA_SONIC_TOOL_RESULT"
             [] OTHER -> "NOVA_SONIC_STREAM_COMPLETE">>

\* a session or tool event: the handlers of onEvent('streamComplete'),
\* onEvent('sessionStart'), onEvent('toolUse'), onEvent('toolEnd') and
\* onEvent('toolResult') only log
onEvent_control ==
    /\ taskReady /\ variant \in SingleCall
    /\ eventsFlow /\ envActs /\ eventsIn < workload.events
    /\ eventsIn' = eventsIn + 1 /\ UNCHANGED fatalError
    /\ \E type \in ControlEvents :
          /\ Emits(type)
          /\ dispatchEvent(type, ControlTags(type))
    /\ UNCHANGED <<idVars, clockVars, pc, exitCode, novaSonicSession, aiCalls,
                   novaSonicResponses, sigVars, webRTCState, peer, frameVars,
                   audioPending, signals, pcmOut, timerVars, runs, audioTimer,
                   listening, ms>>

\* categories of the error events the AI session's transport delivers
ErrorCategories == {"transient", "fatal"}

\* an error event: the handler of onEvent('error') counts and logs it,
\* whatever its category
onEvent_error ==
    /\ taskReady /\ variant \in SingleCall
    /\ eventsFlow /\ envActs /\ eventsIn < workload.events /\ Emits("error")
    /\ eventsIn' = eventsIn + 1
    /\ \E category \in ErrorCategories :
          fatalError' = (fatalError \/ category = "fatal")
    /\ dispatchEvent("error", <<"NOVA_SONIC_ERROR">>)
    /\ UNCHANGED <<idVars, clockVars, pc, exitCode, novaSonicSession, aiCalls,
                   novaSonicResponses, sigVars, webRTCState, peer, frameVars,
                   audioPending, signals, pcmOut, timerVars, runs, audioTimer,
                   listening, ms>>

\* onEvent('audioOutput') of part_004
audioOutput_kvs(content) ==
    IF content = NoContent \/ content = <<>>
    THEN /\ dispatchEvent("audioOutput", <<"NOVA_SONIC_AUDIO_ERROR">>)
         /\ UNCHANGED <<peer, pcmOut, sessionTimeoutId, pendingTimers,
                        timerSeq, lastNovaSonicResponseTime>>
    ELSE IF Base64Decode(content) = <<>>
    THEN /\ dispatchEvent("audioOutput", <<"NOVA_SONIC_AUDIO_WARNING">>)
         /\ UNCHANGED <<peer, pcmOut, sessionTimeoutId, pendingTimers,
                        timerSeq, lastNovaSonicResponseTime>>
    ELSE LET r == sendAudioResponse(Base64Decode(content))
         IN  /\ peer' = r.peer
             /\ pcmOut' = pcmOut \o r.out
             /\ dispatchEvent("audioOutput",
                              r.tags \o <<"NOVA_SONIC_AUDIO_PROCESSED">>)
             /\ resetSessionTimeout

\* onEvent('audioOutput') of WebRTCBridgeServer.ts: Buffer.from throws on a
\* missing content; sendAudioResponse only logs
audioOutput_sim(content) ==
    /\ dispatchEvent("audioOutput",
                     IF content = NoContent
                     THEN <<"NOVA_SONIC_AUDIO_ERROR">>
                     ELSE <<"AUDIO_SENT_TO_AMAZON_CONNECT",
                            "NOVA_SONIC_AUDIO_PROCESSED">>)
    /\ UNCHANGED <<peer, pcmOut, sessionTimeoutId, pendingTimers, timerSeq,
                   lastNovaSonicResponseTime>>

\* onEvent('audioOutput') of part_005: log and reset, whatever the content
audioOutput_simple(content) ==
    /\ dispatchEvent("audioOutput", <<"NOVA_SONIC_AUDIO_RECEIVED">>)
    /\ resetSessionTimeout
    /\ UNCHANGED <<peer, pcmOut>>

onEvent_audioOutput ==
    /\ taskReady /\ variant \in SingleCall
    /\ eventsFlow /\ envActs /\ eventsIn < workload.events /\ Emits("audioOutput")
    /\ eventsIn' = eventsIn + 1 /\ UNCHANGED fatalError
    /\ \E content \in AudioPayloads :
          CASE variant = "kvs" -> audioOutput_kvs(content)
            [] variant = "sim" -> audioOutput_sim(content)
            [] OTHER -> audioOutput_simple(content)
    /\ lastEventAt' = now
    /\ UNCHANGED <<idVars, clockVars, pc, exitCode, novaSonicSession, aiCalls,
                   novaSonicResponses, sigVars, webRTCState, frameVars,
                   audioPending, signals, timeoutCleanups, runs, audioTimer,
                   listening, ms>>

(***************************************************************************)
(* cleanup()                                                               *)
(***************************************************************************)
\* clearSessionTimeout
clearSessionTimeout(timers) ==
    IF sessionTimeoutId # NULL THEN clearTimeout(timers, sessionTimeoutId)
                               ELSE timers

\* "Close WebRTC connection" block: removeTrack on an already closed peer
\* connection throws into the block's catch, which skips close()
PeerClose(p) ==
    IF ~p.made THEN [peer |-> p, steps |-> <<>>]
    ELSE IF p.sender /\ p.closed THEN [peer |-> p, steps |-> <<"peerCloseError">>]
    ELSE [peer |-> [p EXCEPT !.closed = TRUE, !.state = "closed",
                             !.sig = "closed"],
          steps |-> <<"peerClose">>]

\* kvsWebSocket.close()
WsClose(w) ==
    IF w = "none" THEN [ws |-> w, steps |-> <<>>]
    ELSE [ws |-> IF w \in {"CONNECTING", "OPEN"} THEN "CLOSING" ELSE w,
          steps |-> <<"wsClose">>]

\* where a cleanup() activation goes when it returns to its caller: the
\* timer callback calls process.exit(0) next, a signal handler first awaits
\* fastify.close()
AfterCleanup(trig) == IF trig = "timer" THEN "returned" ELSE "fastifyClose"

\* runs with activation i set to r (i may be one past the end)
SetRun(i, r) ==
    [j \in 1..(IF i > Len(runs) THEN i ELSE Len(runs)) |->
        IF j = i THEN r ELSE runs[j]]

\* the tail of cleanup() with the final record written before the peer
\* connection and the signaling socket are closed
CleanupTail_SummaryFirst(i, run, preTags) ==
    LET p == IF variant = "kvs" THEN PeerClose(peer)
             ELSE [peer |-> peer, steps |-> <<>>]
        w == IF variant = "kvs" THEN WsClose(kvsWebSocket)
             ELSE [ws |-> kvsWebSocket, steps |-> <<>>]
    IN  /\ peer' = p.peer
        /\ kvsWebSocket' = w.ws
        /\ LogActs(preTags \o <<"CLEANUP_COMPLETED">>)
        /\ runs' = SetRun(i, [run EXCEPT !.pc = AfterCleanup(run.trig),
                                         !.steps = @ \o <<"CLEANUP_COMPLETED">>
                                                     \o p.steps \o w.steps])

\* the part of cleanup() after the AI session block, up to its return
CleanupTail(i, run, preTags) ==
    LET p == IF variant = "kvs" THEN PeerClose(peer)
             ELSE [peer |-> peer, steps |-> <<>>]
        w == IF variant = "kvs" THEN WsClose(kvsWebSocket)
             ELSE [ws |-> kvsWebSocket, steps |-> <<>>]
    IN  /\ peer' = p.peer
        /\ kvsWebSocket' = w.ws
        /\ LogActs(preTags \o <<"CLEANUP_COMPLETED">>)
        /\ runs' = SetRun(i, [run EXCEPT !.pc = AfterCleanup(run.trig),
                                         !.steps = @ \o p.steps \o w.steps
                                                     \o <<"CLEANUP_COMPLETED">>])

\* the AI teardown calls cleanup() awaits, in its order
TeardownOps == {"endAudioContent", "endPrompt", "close"}

\* cleanup() from its entry to its first await (or to its return when there
\* is no AI session): clearSessionTimeout, statistics, endAudioContent
StartCleanup(trig, preTags, timers) ==
    LET tags == preTags \o (IF variant = "sim" THEN <<"CLEANUP_STARTED">>
                                               ELSE <<"CALL_STATISTICS">>)
        i == Len(runs) + 1
        run == [trig |-> trig, pc |-> "endAudioContent", steps |-> <<>>,
                overlaps |-> \E k \in 1..Len(runs) : runs[k].pc \in TeardownOps]
    IN  /\ IF variant = "sim"
           THEN /\ pendingTimers' = timers
                /\ UNCHANGED sessionTimeoutId
           ELSE /\ pendingTimers' = clearSessionTimeout(timers)
                /\ sessionTimeoutId' = NULL
        /\ IF novaSonicSession
           THEN /\ aiCalls' = Call(aiCalls, "endAudioContent")
                /\ runs' = SetRun(i, [run EXCEPT !.steps = <<"endAudioContent">>])
                /\ LogActs(tags)
                /\ UNCHANGED <<peer, kvsWebSocket>>
           ELSE /\ CleanupTail(i, run, tags)
                /\ UNCHANGED aiCalls

\* the AI teardown call a cleanup() activation awaits settles.  A failure
\* leaves the block through its catch (part_004, part_005) or leaves
\* cleanup() through the outer catch (WebRTCBridgeServer.ts).
CleanupStep(i) ==
    LET run == runs[i] IN
    /\ alive
    /\ run.pc \in TeardownOps
    /\ \E ok \in BOOLEAN :
          /\ CASE ok /\ run.pc # "close" ->
                    LET next == IF run.pc = "endAudioContent" THEN "endPrompt"
                                                              ELSE "close"
                    IN  /\ aiCalls' = Call(Settle(aiCalls, run.pc, TRUE), next)
                        /\ runs' = SetRun(i, [run EXCEPT !.pc = next,
                                                         !.steps = Append(@, next)])
                        /\ UNCHANGED <<peer, kvsWebSocket, logVars>>
               [] ~ok /\ variant = "sim" ->
                    /\ aiCalls' = Settle(aiCalls, run.pc, FALSE)
                    /\ runs' = SetRun(i, [run EXCEPT !.pc = AfterCleanup(run.trig),
                                                     !.steps = Append(@, "CLEANUP_ERROR")])
                    /\ LogActs(<<"CLEANUP_ERROR">>)
                    /\ UNCHANGED <<peer, kvsWebSocket>>
               [] OTHER ->
                    /\ aiCalls' = Settle(aiCalls, run.pc, ok)
                    /\ CleanupTail(i, run, <<>>)
    /\ UNCHANGED <<idVars, clockVars, pc, exitCode, novaSonicSession,
                   novaSonicResponses, kvsState, wsAcked, sigMsgs, webRTCState,
                   inVars, pcmOut, timerVars, audioTimer, listening, ms>>

cleanup_resume == \E i \in 1..Len(runs) : CleanupStep(i)

\* the caller of cleanup() ends the process: the timer callback right after
\* cleanup() returned, a signal handler once fastify.close() has settled.
\* A rejected fastify.close() leaves the async signal handler with an
\* unhandled rejection, on which Node ends the process with exit code 1.
cleanup_exit ==
    /\ alive
    /\ \E i \in 1..Len(runs) :
          \/ runs[i].pc = "returned" /\ exitCode' = 0
          \/ /\ runs[i].pc = "fastifyClose"
             /\ \E ok \in BOOLEAN : exitCode' = IF ok THEN 0 ELSE 1
    /\ UNCHANGED <<idVars, clockVars, pc, novaSonicSession, aiCalls, logVars,
                   novaSonicResponses, sigVars, webRTCState, peer, inVars,
                   pcmOut, timerVars, runs, audioTimer, listening, ms>>

\* the callback of the idle timer set by startSessionTimeoutMonitoring or
\* resetSessionTimeout, up to the first await of cleanup()
sessionTimeout ==
    /\ taskReady /\ variant \in {"kvs", "simple"}
    /\ \E t \in pendingTimers :
          /\ t.deadline <= now
          /\ StartCleanup("timer", <<"SESSION_TIMEOUT">>, pendingTimers \ {t})
    /\ timeoutCleanups' = timeoutCleanups
                            \cup {[at |-> now, lastEvent |-> lastEventAt]}
    /\ UNCHANGED <<idVars, clockVars, pc, exitCode, novaSonicSession,
                   novaSonicResponses, kvsState, wsAcked, sigMsgs, webRTCState,
                   inVars, pcmOut, timerSeq, lastNovaSonicResponseTime,
                   lastEventAt, audioTimer, listening, ms>>

\* process.on('SIGINT') / process.on('SIGTERM')
signal ==
    /\ taskReady /\ variant \in SingleCall
    /\ envActs /\ signals < workload.signals
    /\ signals' = signals + 1
    /\ StartCleanup("signal", <<>>, pendingTimers)
    /\ UNCHANGED <<idVars, clockVars, pc, exitCode, novaSonicSession,
                   novaSonicResponses, kvsState, wsAcked, sigMsgs, webRTCState,
                   frameVars, audioPending, evVars, pcmOut, timerSeq,
                   lastNovaSonicResponseTime, lastEventAt, timeoutCleanups,
                   audioTimer, listening, ms>>

(***************************************************************************)
(* The clock.  A pending timer fires at its deadline: time does not move   *)
(* past the deadline of the idle timer or the due time of an audio timer.  *)
(* The clock advances to the next multiple of MsPerTick or to the next     *)
(* deadline, whichever is earlier.  The workload bounds how often the      *)
(* clock advances; in a timed workload it can always advance up to the     *)
(* deadline of a pending timer, and it advances to the                     *)
(* due time of the audio interval for as long as the workload has frames,  *)
(* and to the due time of a wait of startup.  While the AI session is      *)
(* being set up the awaited calls settle without delay: until              *)
(* setupStartAudio has completed, time passes only in the waits and up to  *)
(* a deadline.                                                             *)
(***************************************************************************)
Deadlines ==
    {t.deadline : t \in pendingTimers}
       \cup (IF audioTimer.kind = "none" THEN {} ELSE {audioTimer.due})
       \cup (IF waitDue = -1 THEN {} ELSE {waitDue})

Earliest(times) == CHOOSE t \in times : \A u \in times : t <= u

Tick ==
    /\ taskReady /\ variant \in SingleCall
    /\ \A d \in Deadlines : now < d
    /\ LET target == Earliest({((now \div MsPerTick) + 1) * MsPerTick}
                                 \cup Deadlines)
           audio == audioTimer.kind # "none" /\ target = audioTimer.due
           wait == target = waitDue
       IN  /\ \/ envActs /\ ticks < workload.ticks
              \/ workload.timed /\ pendingTimers # {}
              \/ audio /\ audioTimer.kind = "interval"
              \/ wait
           /\ (wait \/ audio \/ target \in {t.deadline : t \in pendingTimers}
                   \/ sessionOpenedAt # -1)
           /\ audio /\ audioTimer.kind = "interval"
                 => framesIn < workload.frames
           /\ now' = target
           /\ ticks' = IF ~audio /\ ~wait /\ envActs /\ ticks < workload.ticks
                        THEN ticks + 1 ELSE ticks
    /\ UNCHANGED <<idVars, waitDue, pc, exitCode, novaSonicSession, aiCalls,
                   logVars,
                   novaSonicResponses, sigVars, webRTCState, peer, inVars,
                   pcmOut, timerVars, runs, audioTimer, listening, ms>>

(***************************************************************************)
(* The /media-stream bridge (CONTINUOUS_MODE_IMPROVEMENTS.md): one caller  *)
(* connection, its message handler activations, and the orphan sweep       *)
(***************************************************************************)
\* what no step of the /media-stream bridge touches
msFrame == <<idVars, logVars, novaSonicResponses, sigVars, webRTCState,
             peer, frameVars, audioPending, pcmOut, timerVars, runs,
             audioTimer>>

\* the process of the /media-stream bridge: where startServer is, the exit
\* code, the SIGINTs received
msProc == <<pc, exitCode, signals, listening>>

\* startServer of the /media-stream bridge: `await
\* initializeNovaSonicClient()` settles; on success fastify.listen is called
ms_initializeNovaSonicClient ==
    /\ alive /\ variant = "ms"
    /\ pc = "initializeNovaSonicClient"
    /\ \E ok \in BOOLEAN :
          /\ pc' = IF ok THEN "listen" ELSE "failed"
          /\ exitCode' = IF ok THEN exitCode ELSE 1
    /\ UNCHANGED <<msFrame, signals, listening, clockVars, evVars,
                   novaSonicSession, aiCalls, ms>>

\* `await fastify.listen` settles
ms_listenDone ==
    /\ alive /\ variant = "ms"
    /\ pc = "listen"
    /\ \E ok \in BOOLEAN :
          /\ pc' = IF ok THEN "running" ELSE "failed"
          /\ listening' = ok
          /\ exitCode' = IF ok THEN exitCode ELSE 1
    /\ UNCHANGED <<msFrame, signals, clockVars, evVars, novaSonicSession,
                   aiCalls, ms>>

\* process.on('SIGINT') up to `await fastify.close()`
ms_signal ==
    /\ taskReady /\ variant = "ms"
    /\ signals < workload.signals
    /\ signals' = signals + 1
    /\ ms' = [ms EXCEPT !.closing = @ + 1]
    /\ UNCHANGED <<msFrame, pc, exitCode, listening, clockVars, evVars,
                   novaSonicSession, aiCalls>>

\* the SIGINT handler resumes after fastify.close(): process.exit(0); a
\* close that rejects leaves the handler's promise rejected and unhandled,
\* which ends the process with status 1
ms_fastifyCloseDone ==
    /\ alive /\ variant = "ms"
    /\ ms.closing > 0
    /\ \E ok \in BOOLEAN : exitCode' = IF ok THEN 0 ELSE 1
    /\ ms' = [ms EXCEPT !.closing = @ - 1]
    /\ UNCHANGED <<msFrame, pc, signals, listening, clockVars, evVars,
                   novaSonicSession, aiCalls>>

Park(m, a) == [m EXCEPT !.awaiting[a] = @ + 1]
Unpark(m, a) == [m EXCEPT !.awaiting[a] = @ - 1]

\* connection.close() in the catch of the message handler
MsConnectionClose(m) == IF m.conn = "open" THEN [m EXCEPT !.conn = "closing"]
                                           ELSE m

\* fastify.get('/media-stream') handler: a caller connection opens
ms_connection ==
    /\ alive /\ variant = "ms" /\ listening /\ ms.conn = "none"
    /\ novaSonicSession' = TRUE
    /\ aiCalls' = Call(aiCalls, "initiateSession")
    /\ ms' = [ms EXCEPT !.conn = "open", !.registered = TRUE,
                        !.activity = now, !.lastCustomerAudioTime = now]
    /\ UNCHANGED <<msFrame, msProc, clockVars, evVars>>

\* the promise of the initiateSession call nobody awaits settles; a
\* rejection is unhandled, which ends the process with status 1
ms_initiateSessionDone ==
    /\ alive /\ variant = "ms"
    /\ aiCalls["initiateSession"].called >
          aiCalls["initiateSession"].ok + aiCalls["initiateSession"].failed
    /\ \E ok \in BOOLEAN :
          /\ aiCalls' = Settle(aiCalls, "initiateSession", ok)
          /\ exitCode' = IF ok THEN exitCode ELSE 1
    /\ UNCHANGED <<msFrame, pc, signals, listening, clockVars, evVars,
                   novaSonicSession, ms>>

\* a message can be delivered on the caller connection
MsDeliverable == alive /\ variant = "ms" /\ ms.conn = "open"
                 /\ ms.msgs < workload.msgs

\* the caller has sent 'stop': its handler is at the flush or has issued
\* endAudioContent
StopSent ==
    ms.awaiting["flush"] > 0 \/ aiCalls["endAudioContent"].called > 0

\* a caller that keeps to the message order sends 'connected' first, then
\* 'start', then 'media' frames until its one 'stop'
InOrder(event) ==
    workload.inorder =>
       CASE event = "connected" -> ms.msgs = 0
         [] event = "start" -> ms.msgs = 1
         [] event \in {"media", "stop"} -> ms.msgs >= 2 /\ ~StopSent
         [] OTHER -> FALSE

\* connection.on('message'), case 'connected', up to `await setupPromptStart`
ms_message_connected ==
    /\ MsDeliverable /\ InOrder("connected")
    /\ aiCalls' = Call(aiCalls, "setupPromptStart")
    /\ ms' = Park([ms EXCEPT !.msgs = @ + 1], "setupPromptStart")
    /\ UNCHANGED <<msFrame, msProc, clockVars, evVars, novaSonicSession>>

\* the start messages a caller sends: with a streamARN, and in a workload
\* that does not keep to the protocol also without one
StartArns == IF workload.inorder THEN {TRUE} ELSE BOOLEAN

\* a 'start' activation parks at an await, remembered with whether its
\* message carried a stream ARN
ParkStart(m, a, arn) ==
    [Park(m, a) EXCEPT !.withArn[a] = @ + (IF arn THEN 1 ELSE 0)]

\* case 'start' with the stream ARN recorded before the awaited setup calls
ms_message_start_ArnFirst ==
    /\ MsDeliverable /\ InOrder("start")
    /\ aiCalls' = Call(aiCalls, "setupSystemPrompt")
    /\ \E arn \in StartArns :
          ms' = ParkStart([ms EXCEPT !.msgs = @ + 1, !.streamARN = arn],
                          "setupSystemPrompt", arn)
    /\ UNCHANGED <<msFrame, msProc, clockVars, evVars, novaSonicSession>>

\* case 'start', up to `await setupSystemPrompt`
ms_message_start ==
    /\ MsDeliverable /\ InOrder("start")
    /\ aiCalls' = Call(aiCalls, "setupSystemPrompt")
    /\ \E arn \in StartArns :
          ms' = ParkStart([ms EXCEPT !.msgs = @ + 1], "setupSystemPrompt", arn)
    /\ UNCHANGED <<msFrame, msProc, clockVars, evVars, novaSonicSession>>

\* case 'media' for an inbound or outbound track once the stream has
\* started: activity and interruption tracking, then the frame is queued
\* and a full queue is handed to streamAudio
MediaQueued_Repeated(m, track) ==
    LET t == IF track = "inbound"
             THEN [m EXCEPT !.lastCustomerAudioTime = now, !.activity = now]
             ELSE m
        timeSinceAgentStarted == now - t.lastCustomerAudioTime
        heard == IF track = "inbound" /\ t.isAgentSpeaking
                 THEN [t EXCEPT !.block.inbound = @ + 1]
                 ELSE t
        i == IF track = "inbound" /\ t.isAgentSpeaking
                /\ timeSinceAgentStarted < INTERRUPTION_THRESHOLD
             THEN [heard EXCEPT !.interruptionDetected = TRUE,
                                !.sessionInterruptionFlag = TRUE,
                                !.block.detections = @ + 1]
             ELSE heard
    IN  [i EXCEPT !.audioBufferQueue = Append(@, m.nextFrame),
                  !.nextFrame = @ + 1]

MediaQueued(m, track) ==
    LET t == IF track = "inbound"
             THEN [m EXCEPT !.lastCustomerAudioTime = now, !.activity = now]
             ELSE m
        timeSinceAgentStarted == now - t.lastCustomerAudioTime
        heard == IF track = "inbound" /\ t.isAgentSpeaking
                 THEN [t EXCEPT !.block.inbound = @ + 1]
                 ELSE t
        i == IF track = "inbound" /\ t.isAgentSpeaking
                /\ ~t.interruptionDetected
                /\ timeSinceAgentStarted < INTERRUPTION_THRESHOLD
             THEN [heard EXCEPT !.interruptionDetected = TRUE,
                                !.sessionInterruptionFlag = TRUE,
                                !.block.detections = @ + 1]
             ELSE heard
    IN  [i EXCEPT !.audioBufferQueue = Append(@, m.nextFrame),
                  !.nextFrame = @ + 1]

\* the payload of the n-th queued 'media' message, two companded samples in
\* base64, and the buffer the media case queues for it
MsMediaPayload(n) == Base64Encode(<<n % 256, 255>>)
MsAudioBuffer(n) == PcmBytes(MulawDecode(Base64Decode(MsMediaPayload(n))))

\* the combined buffer of a batch of queued frames
MsStreamBuffer(batch) ==
    Flatten([i \in 1..Len(batch) |-> MsAudioBuffer(batch[i])])

\* connection.on('message'), case 'media', up to its await.  The frame has
\* a media member with an inbound or outbound track and a payload, or it has
\* no media member (reading data.media.track throws into the outer catch),
\* or it is an inbound frame without payload (Buffer.from throws into the
\* inner catch).
ms_message_media ==
    /\ MsDeliverable /\ InOrder("media")
    /\ \E shape \in {"inbound", "outbound", "nomedia", "nopayload"} :
          LET m == [ms EXCEPT !.msgs = @ + 1] IN
          CASE ~ms.streamARN ->
                 ms' = m /\ UNCHANGED aiCalls
            [] ms.streamARN /\ shape = "nomedia" ->
                 ms' = MsConnectionClose(m) /\ UNCHANGED aiCalls
            [] ms.streamARN /\ shape = "nopayload" ->
                 /\ ms' = [MediaQueued(m, "inbound") EXCEPT
                              !.audioBufferQueue = m.audioBufferQueue,
                              !.nextFrame = m.nextFrame]
                 /\ UNCHANGED aiCalls
            [] OTHER ->
                 LET q == MediaQueued(m, shape) IN
                 IF Len(q.audioBufferQueue) >= BATCH_SIZE
                 THEN /\ aiCalls' = Call(aiCalls, "streamAudio")
                      /\ ms' = Park([q EXCEPT !.streamed =
                                         Append(@, q.audioBufferQueue)],
                                    "streamAudio")
                 ELSE ms' = q /\ UNCHANGED aiCalls
    /\ UNCHANGED <<msFrame, msProc, clockVars, evVars, novaSonicSession>>

\* case 'stop', up to its first await: the flush of a non-empty queue, else
\* endAudioContent
ms_message_stop ==
    /\ MsDeliverable /\ InOrder("stop")
    /\ LET m == [ms EXCEPT !.msgs = @ + 1] IN
       IF ms.audioBufferQueue # <<>>
       THEN /\ aiCalls' = Call(aiCalls, "streamAudio")
            /\ ms' = Park([m EXCEPT !.streamed = Append(@, ms.audioBufferQueue)],
                          "flush")
       ELSE /\ aiCalls' = Call(aiCalls, "endAudioContent")
            /\ ms' = Park(m, "endAudioContent")
    /\ UNCHANGED <<msFrame, msProc, clockVars, evVars, novaSonicSession>>

\* the default case, or a message JSON.parse rejects
ms_message_other ==
    /\ MsDeliverable /\ InOrder("other")
    /\ \E parses \in BOOLEAN :
          ms' = IF parses THEN [ms EXCEPT !.msgs = @ + 1]
                ELSE MsConnectionClose([ms EXCEPT !.msgs = @ + 1])
    /\ UNCHANGED <<msFrame, msProc, clockVars, evVars, novaSonicSession, aiCalls>>

\* the awaits of the 'start' case
StartAwaits == {"setupSystemPrompt", "setupStartAudio"}

\* whether the message of an activation parked at an await carried a
\* stream ARN
ParkedArns(a) ==
    IF a \in StartAwaits
    THEN {arn \in BOOLEAN : IF arn THEN ms.withArn[a] > 0
                                   ELSE ms.awaiting[a] > ms.withArn[a]}
    ELSE {FALSE}

\* a message handler activation resumes from the await it is parked at;
\* the 'start' case ends with session.streamARN = data.streamARN
MsResume(a, ok, arn) ==
    LET m == IF arn THEN [Unpark(ms, a) EXCEPT !.withArn[a] = @ - 1]
                    ELSE Unpark(ms, a)
        op == IF a = "flush" THEN "streamAudio" ELSE a
        settled == Settle(aiCalls, op, ok)
    IN  CASE a = "streamAudio" ->
               /\ aiCalls' = settled
               /\ ms' = IF ok THEN [m EXCEPT !.audioBufferQueue = <<>>] ELSE m
          [] ~ok ->
               /\ aiCalls' = settled
               /\ ms' = MsConnectionClose(m)
          [] a = "setupSystemPrompt" ->
               /\ aiCalls' = Call(settled, "setupStartAudio")
               /\ ms' = ParkStart(m, "setupStartAudio", arn)
          [] a = "setupStartAudio" ->
               /\ aiCalls' = settled
               /\ ms' = [m EXCEPT !.streamARN = arn]
          [] a = "flush" ->
               /\ aiCalls' = Call(settled, "endAudioContent")
               /\ ms' = Park([m EXCEPT !.audioBufferQueue = <<>>],
                             "endAudioContent")
          [] OTHER ->
               /\ aiCalls' = settled
               /\ ms' = m

ms_resume ==
    /\ alive /\ variant = "ms"
    /\ \E a \in MsAwaits \ {"close"} :
          /\ ms.awaiting[a] > 0
          /\ \E ok \in BOOLEAN : \E arn \in ParkedArns(a) : MsResume(a, ok, arn)
    /\ UNCHANGED <<msFrame, msProc, clockVars, evVars, novaSonicSession>>

\* connection.on('close'): the caller hung up, or the close the handler's
\* catch asked for has completed
ms_close ==
    /\ alive /\ variant = "ms"
    /\ ms.conn \in {"open", "closing"}
    /\ ms' = [ms EXCEPT !.conn = "closed", !.registered = FALSE,
                        !.activity = -1]
    /\ UNCHANGED <<msFrame, msProc, clockVars, evVars, novaSonicSession, aiCalls>>

\* cleanupOrphanedSessions, run by the two-minute interval, up to
\* `await session.close()` for a registered session idle for over 5 minutes
cleanupOrphanedSessions ==
    /\ alive /\ variant = "ms" /\ ms.sweepDue
    /\ LET m == [ms EXCEPT !.sweepDue = FALSE]
           lastActivity_ == IF ms.activity = -1 THEN 0 ELSE ms.activity
       IN  IF ms.registered /\ now - lastActivity_ > ORPHAN_AGE_MS
           THEN /\ aiCalls' = Call(aiCalls, "close")
                /\ ms' = Park(m, "close")
           ELSE /\ ms' = m
                /\ UNCHANGED aiCalls
    /\ UNCHANGED <<msFrame, msProc, clockVars, evVars, novaSonicSession>>

\* a sweep whose catch leaves the entries of a session that failed to close
sweep_resume_KeepOnFailure ==
    /\ alive /\ variant = "ms" /\ ms.awaiting["close"] > 0
    /\ \E ok \in BOOLEAN :
          /\ aiCalls' = Settle(aiCalls, "close", ok)
          /\ ms' = IF ok THEN [Unpark(ms, "close") EXCEPT !.registered = FALSE,
                                                          !.activity = -1]
                        ELSE Unpark(ms, "close")
    /\ UNCHANGED <<msFrame, msProc, clockVars, evVars, novaSonicSession>>

\* the sweep resumes after session.close(): both entries are deleted,
\* whether the close succeeded or threw
sweep_resume ==
    /\ alive /\ variant = "ms" /\ ms.awaiting["close"] > 0
    /\ \E ok \in BOOLEAN : aiCalls' = Settle(aiCalls, "close", ok)
    /\ ms' = [Unpark(ms, "close") EXCEPT !.registered = FALSE, !.activity = -1]
    /\ UNCHANGED <<msFrame, msProc, clockVars, evVars, novaSonicSession>>

\* time passes up to the next firing of the sweep interval
ms_tick ==
    /\ alive /\ variant = "ms" /\ workload.clock = "coarse"
    /\ ticks < workload.ticks /\ ~ms.sweepDue
    /\ now' = ((now \div SWEEP_INTERVAL_MS) + 1) * SWEEP_INTERVAL_MS
    /\ ticks' = ticks + 1
    /\ UNCHANGED waitDue
    /\ ms' = [ms EXCEPT !.sweepDue = TRUE]
    /\ UNCHANGED <<msFrame, msProc, evVars, novaSonicSession, aiCalls>>

\* half a second passes, the sweep interval not yet due
ms_elapse ==
    /\ alive /\ variant = "ms" /\ workload.clock = "fine"
    /\ ticks < workload.ticks
    /\ now + INTERRUPTION_THRESHOLD < SWEEP_INTERVAL_MS
    /\ now' = now + INTERRUPTION_THRESHOLD
    /\ ticks' = ticks + 1
    /\ UNCHANGED waitDue
    /\ UNCHANGED <<msFrame, msProc, evVars, novaSonicSession, aiCalls, ms>>

(***************************************************************************)
(* AI session events of the /media-stream bridge                           *)
(***************************************************************************)
\* String.prototype.toLowerCase and String.prototype.includes on character
\* codes
ToLowerCase(text) ==
    [i \in 1..Len(text) |-> IF text[i] \in 65..90 THEN text[i] + 32 ELSE text[i]]

Includes(text, pat) ==
    \E i \in 1..(Len(text) - Len(pat) + 1) :
        SubSeq(text, i, i + Len(pat) - 1) = pat

\* "interrupt"
InterruptWord == <<105, 110, 116, 101, 114, 114, 117, 112, 116>>

\* text payloads: no content field, "Hi", "Interrupt"
MsTextPayloads == {NoContent, <<72, 105>>,
                   <<73, 110, 116, 101, 114, 114, 117, 112, 116>>}

\* the content of the n-th audioOutput event that carries one: n + 1 bytes
\* of audio in base64, so that buffers of even and of odd length occur
MsAudioContent(n) == Base64Encode([j \in 1..(n + 1) |-> (n * 89 + j * 43) % 256])

\* audio payloads: no content field, or the next content
MsAudioPayloads(m) == {NoContent, MsAudioContent(Len(m.relayed) + 1)}

MsEventReady == alive /\ variant = "ms" /\ eventsFlow
                /\ eventsIn < workload.events

\* session.onEvent('contentStart')
ms_contentStart ==
    /\ MsEventReady
    /\ eventsIn' = eventsIn + 1 /\ UNCHANGED <<fatalError, anyEvents>>
    /\ ms' = [ms EXCEPT !.isAgentSpeaking = TRUE,
                        !.interruptionDetected = FALSE,
                        !.agentStartedAt = now,
                        !.block = [inbound |-> 0, detections |-> 0]]
    /\ UNCHANGED <<msFrame, msProc, clockVars, novaSonicSession, aiCalls>>

ms_contentEnd_KeepsDetected ==
    /\ MsEventReady
    /\ eventsIn' = eventsIn + 1 /\ UNCHANGED <<fatalError, anyEvents>>
    /\ ms' = [ms EXCEPT !.isAgentSpeaking = FALSE,
                        !.block = [inbound |-> 0, detections |-> 0]]
    /\ UNCHANGED <<msFrame, msProc, clockVars, novaSonicSession, aiCalls>>

\* session.onEvent('contentEnd')
ms_contentEnd ==
    /\ MsEventReady
    /\ eventsIn' = eventsIn + 1 /\ UNCHANGED <<fatalError, anyEvents>>
    /\ ms' = [ms EXCEPT !.isAgentSpeaking = FALSE,
                        !.interruptionDetected = FALSE,
                        !.block = [inbound |-> 0, detections |-> 0]]
    /\ UNCHANGED <<msFrame, msProc, clockVars, novaSonicSession, aiCalls>>

\* session.onEvent('error'), whatever category the event carries, and
\* session.onEvent('streamComplete')
ms_error ==
    /\ MsEventReady
    /\ eventsIn' = eventsIn + 1 /\ UNCHANGED anyEvents
    /\ \E kind \in ErrorCategories \cup {"streamComplete"} :
          fatalError' = (fatalError \/ kind = "fatal")
    /\ ms' = [ms EXCEPT !.isAgentSpeaking = FALSE]
    /\ UNCHANGED <<msFrame, msProc, clockVars, novaSonicSession, aiCalls>>

\* session.onEvent('toolUse') and session.onEvent('toolResult'): both only
\* write to the console
ms_toolUse ==
    /\ MsEventReady
    /\ eventsIn' = eventsIn + 1 /\ UNCHANGED <<fatalError, anyEvents>>
    /\ UNCHANGED <<msFrame, msProc, clockVars, novaSonicSession, aiCalls, ms>>

\* session.onEvent('textOutput'): the preview dereferences the content, so
\* an event without content throws before the acknowledgement check
ms_textOutput ==
    /\ MsEventReady
    /\ eventsIn' = eventsIn + 1 /\ UNCHANGED <<fatalError, anyEvents>>
    /\ \E content \in MsTextPayloads :
          ms' = IF content # NoContent /\ ms.sessionInterruptionFlag
                   /\ Includes(ToLowerCase(content), InterruptWord)
                THEN [ms EXCEPT !.sessionInterruptionFlag = FALSE]
                ELSE ms
    /\ UNCHANGED <<msFrame, msProc, clockVars, novaSonicSession, aiCalls>>

\* new Int16Array(buffer.buffer, buffer.byteOffset, buffer.length / 2): the
\* 16-bit samples, low byte first; the length is cut to a whole number, so a
\* last odd byte is left out
Int16Samples(bytes) ==
    [i \in 1..(Len(bytes) \div 2) |->
        LET w == bytes[2 * i - 1] + 256 * bytes[2 * i]
        IN  IF w >= 32768 THEN w - 65536 ELSE w]

\* mulaw.encode of alawmulaw: one companded byte for each 16-bit sample
MULAW_BIAS == 132
MULAW_CLIP == 32635

MulawExponent(x) ==
    IF x < 2 THEN 0 ELSE CHOOSE e \in 1..7 : 2 ^ e <= x /\ x < 2 ^ (e + 1)

MulawEncodeSample(sample) ==
    LET sign == IF sample < 0 THEN 128 ELSE 0
        magnitude == IF sample < 0 THEN -sample ELSE sample
        biased == IF magnitude + MULAW_BIAS > MULAW_CLIP THEN MULAW_CLIP
                  ELSE magnitude + MULAW_BIAS
        exponent == MulawExponent((biased \div 128) % 256)
        mantissa == (biased \div (2 ^ (exponent + 3))) % 16
    IN  255 - (sign + exponent * 16 + mantissa)

MulawEncode(samples) ==
    [i \in 1..Len(samples) |-> MulawEncodeSample(samples[i])]

\* the payload of the outbound 'media' message made from an event content
OutboundPayload(content) ==
    Base64Encode(MulawEncode(Int16Samples(Base64Decode(content))))

audioOutput_Muted(m, content) ==
    IF content = NoContent
    THEN [m EXCEPT !.sends.failed = @ + 1]
    ELSE IF m.sessionInterruptionFlag THEN m
    ELSE LET sent == [content |-> content,
                      payload |-> OutboundPayload(content),
                      flagged |-> m.sessionInterruptionFlag]
             r == [m EXCEPT !.relayed = Append(@, sent)]
         IN  IF m.conn = "open" THEN [r EXCEPT !.sends.open = @ + 1]
             ELSE [r EXCEPT !.sends.notOpen = @ + 1]

\* the body of the audioOutput handler: Buffer.from throws on a missing
\* content, and the catch logs it; otherwise the frame is encoded and handed
\* to connection.send
audioOutput(m, content) ==
    IF content = NoContent
    THEN [m EXCEPT !.sends.failed = @ + 1]
    ELSE LET sent == [content |-> content,
                      payload |-> OutboundPayload(content),
                      flagged |-> m.sessionInterruptionFlag]
             r == [m EXCEPT !.relayed = Append(@, sent)]
         IN  IF m.conn = "open" THEN [r EXCEPT !.sends.open = @ + 1]
             ELSE [r EXCEPT !.sends.notOpen = @ + 1]

\* session.onEvent('audioOutput')
ms_audioOutput ==
    /\ MsEventReady
    /\ eventsIn' = eventsIn + 1 /\ UNCHANGED <<fatalError, anyEvents>>
    /\ \E content \in MsAudioPayloads(ms) : ms' = audioOutput(ms, content)
    /\ UNCHANGED <<msFrame, msProc, clockVars, novaSonicSession, aiCalls>>

(***************************************************************************)
(* Specifications                                                          *)
(***************************************************************************)
\* handlers of the AI session's response events
NextEvents ==
    \/ onEvent_textOutput \/ onEvent_audioOutput \/ onEvent_error
    \/ onEvent_content \/ onEvent_control
    \/ ms_contentStart \/ ms_contentEnd \/ ms_error \/ ms_textOutput
    \/ ms_audioOutput \/ ms_toolUse

\* steps the program takes by itself: the resumption of an await whose
\* promise has settled, a due timer, the passing of time
Scheduled ==
    \/ initializeNovaSonicClient \/ initiateSessionDone \/ setupPromptStartDone
    \/ setupSystemPromptDone \/ delayDone \/ setupStartAudioDone
    \/ kvsEndpointDone \/ connectToKVSWebSocketDone
    \/ connectToKVSWebSocketRejected
    \/ handleWebRTCAnswerDone \/ handleWebRTCOfferDone
    \/ handleICECandidateDone \/ createOfferDone \/ setLocalDescriptionDone
    \/ simKvsDelayDone \/ simRtcDelayDone \/ listenDone \/ streamAudioDone
    \/ cleanup_resume \/ cleanup_exit \/ sessionTimeout \/ audioTimerDue
    \/ Tick
    \/ ms_initializeNovaSonicClient \/ ms_listenDone \/ ms_fastifyCloseDone
    \/ ms_initiateSessionDone \/ ms_resume \/ cleanupOrphanedSessions
    \/ sweep_resume \/ ms_tick

\* what the caller side, the signaling channel, the operating system and
\* the media path do
Environment ==
    \/ ws_open \/ ws_message_connect \/ ws_message_answer
    \/ ws_message_offer \/ ws_message_ice
    \/ ws_message_unparseable \/ ws_message_other \/ ws_error \/ ws_close
    \/ peer_connectionstatechange \/ peer_icecandidate \/ peer_track
    \/ processAudioChunk \/ signal \/ ms_signal
    \/ ms_connection \/ ms_message_connected \/ ms_message_start
    \/ ms_message_media \/ ms_message_stop \/ ms_message_other \/ ms_close

Next == Scheduled \/ Environment \/ NextEvents \/ ms_elapse

Spec == Init /\ [][Next]_vars

\* The AI session stays silent; every await settles, due timers fire and
\* time passes, from one timer to the next.  Nothing is assumed of the environment.
SilentInit == InitIn(Silent(variant))

FairSpec == SilentInit /\ [][Scheduled \/ Environment]_vars /\ WF_vars(Scheduled)

(***************************************************************************)
(* Properties                                                              *)
(***************************************************************************)
\* C1: in every variant streamAudio is never invoked on the AI session
\* before setupStartAudio has completed, whatever the order of startup
\* steps, inbound frames and test-audio requests.
C1_NoAudioBeforeAudioContentOpen ==
    aiCalls["streamAudio"].called > 0 => aiCalls["setupStartAudio"].ok > 0

C1_AudioStreamed == aiCalls["streamAudio"].ok > 0

\* C2: in the KVS bridge the startup control calls are issued in the order
\* initiateSession, setupPromptStart, setupSystemPrompt, setupStartAudio,
\* each once and only after the previous one completed; when one fails no
\* later one is invoked and startup fails (exit code 1, never listening).
StartupOrder == <<"initiateSession", "setupPromptStart", "setupSystemPrompt",
                  "setupStartAudio">>

C2_StartupOrder ==
    variant = "kvs" =>
       \A i \in 1..Len(StartupOrder) :
          LET op == StartupOrder[i] IN
          /\ aiCalls[op].called <= 1
          /\ i > 1 /\ aiCalls[op].called > 0 =>
                aiCalls[StartupOrder[i - 1]].ok > 0
          /\ aiCalls[op].failed > 0 =>
                /\ exitCode = 1 /\ ~listening
                /\ \A j \in (i + 1)..Len(StartupOrder) :
                      aiCalls[StartupOrder[j]].called = 0

C2_StartupCompleted ==
    variant = "kvs" /\ \A i \in 1..Len(StartupOrder) :
                          aiCalls[StartupOrder[i]].ok = 1

\* C3: in the /media-stream variant the AI control calls reach the session
\* in the fixed order initiateSession, setupPromptStart, setupSystemPrompt,
\* setupStartAudio, streamAudio calls, endAudioContent, and no call is
\* issued before its predecessor has completed, for every order of inbound
\* 'connected', 'start', 'media' and 'stop' messages.
C3_MediaStreamControlOrder ==
    [][variant = "ms" =>
         /\ \A i \in 2..Len(StartupOrder) :
               aiCalls'[StartupOrder[i]].called > aiCalls[StartupOrder[i]].called
                  => aiCalls'[StartupOrder[i - 1]].ok > 0
         /\ aiCalls'["streamAudio"].called > aiCalls["streamAudio"].called
               => /\ aiCalls'["setupStartAudio"].ok > 0
                  /\ aiCalls["endAudioContent"].called = 0
         /\ aiCalls'["endAudioContent"].called > aiCalls["endAudioContent"].called
               => /\ aiCalls'["setupStartAudio"].ok > 0
                  /\ aiCalls'["streamAudio"].called =
                        aiCalls'["streamAudio"].ok + aiCalls'["streamAudio"].failed
    ]_vars

\* C4: every run of cleanup performs its steps in the order endAudioContent,
\* endPrompt, close of the AI session, close of the peer connection, close
\* of the signaling socket, and only then the final record
\* (CLEANUP_COMPLETED with the call duration, or CLEANUP_ERROR).
CleanupOrder == <<"endAudioContent", "endPrompt", "close", "peerClose",
                  "wsClose", "CLEANUP_COMPLETED">>

CleanupRank(step) ==
    CASE step = "peerCloseError" -> 4
      [] step = "CLEANUP_ERROR" -> 6
      [] OTHER -> CHOOSE k \in 1..Len(CleanupOrder) : CleanupOrder[k] = step

C4_CleanupOrder ==
    \A i \in 1..Len(runs) :
       \A a, b \in 1..Len(runs[i].steps) :
          a < b => CleanupRank(runs[i].steps[a]) < CleanupRank(runs[i].steps[b])

C4_FullCleanupRun == \E i \in 1..Len(runs) : runs[i].steps = CleanupOrder

\* C5: cleanup is best-effort per step: when endAudioContent, endPrompt or
\* close fails, the remaining AI teardown calls and the final record are
\* still attempted, so a cleanup run that has returned and began the AI
\* teardown has invoked all three calls and written CLEANUP_COMPLETED.
C5_BestEffortPerStep ==
    \A i \in 1..Len(runs) :
       (/\ runs[i].pc \in {"returned", "fastifyClose"}
        /\ "endAudioContent" \in Range(runs[i].steps))
          => {"endPrompt", "close", "CLEANUP_COMPLETED"}
                \subseteq Range(runs[i].steps)

\* C6: once teardown of the AI session has begun, no further inbound frame
\* is forwarded: no streamAudio call is issued after endAudioContent or
\* close has been invoked on the session.
C6_NoAudioAfterTeardown ==
    [][aiCalls'["streamAudio"].called > aiCalls["streamAudio"].called
          => /\ aiCalls["endAudioContent"].called = 0
             /\ aiCalls["close"].called = 0]_vars

\* C7: when cleanup is triggered by both the idle timer and SIGINT/SIGTERM,
\* one while the other is still in its AI teardown, the second attempt
\* raises no error and the final CLEANUP_COMPLETED record is logged only
\* once.
C7_ConcurrentCleanupOnce ==
    (/\ variant = "kvs"
     /\ \E i, j \in 1..Len(runs) :
           /\ runs[i].trig = "timer" /\ runs[j].trig = "signal"
           /\ runs[i].overlaps \/ runs[j].overlaps)
       => /\ Logged("CLEANUP_COMPLETED") <= 1
          /\ \A i \in 1..Len(runs) : "peerCloseError" \notin Range(runs[i].steps)

\* C8: when the AI session never emits a response event, cleanup is
\* triggered once the idle threshold has elapsed since the session was
\* opened: a timer callback never starts it earlier, and the started
\* server does not run past the threshold without it.
C8_IdleCleanupAtThreshold ==
    /\ (/\ alive /\ pc = "running" /\ eventsIn = 0 /\ sessionOpenedAt # -1
        /\ now - sessionOpenedAt > SESSION_TIMEOUT_MS)
          => runs # <<>>
    /\ \A c \in timeoutCleanups :
          c.lastEvent = -1 /\ sessionOpenedAt # -1
             => c.at - sessionOpenedAt >= SESSION_TIMEOUT_MS

\* C9: every textOutput and audioOutput event, whatever its payload, resets
\* the idle timer: the pending timer is cancelled and a fresh one is armed
\* for the full threshold.
C9_EveryResponseResets ==
    [][(/\ variant = "kvs" /\ eventsIn' > eventsIn
        /\ anyEvents'.eventType \in {"textOutput", "audioOutput"})
          => /\ lastNovaSonicResponseTime' = now
             /\ pendingTimers' = {[id |-> sessionTimeoutId',
                                   deadline |-> now + SESSION_TIMEOUT_MS]}]_vars

\* C10: when the caller-facing connection has closed (the signaling socket
\* of the KVS bridge, the /media-stream socket), cleanup eventually runs
\* and endAudioContent, endPrompt and close are invoked on the AI session.
CallerConnectionClosed ==
    \/ variant = "kvs" /\ kvsWebSocket = "CLOSED"
    \/ variant = "ms" /\ ms.conn = "closed"

C10_CloseLeadsToCleanup ==
    CallerConnectionClosed ~>
       \/ variant = "kvs" /\ runs # <<>>
       \/ /\ aiCalls["endAudioContent"].called > 0
          /\ aiCalls["endPrompt"].called > 0
          /\ aiCalls["close"].called > 0

\* C11: once the AI session has delivered an error event of the fatal
\* category, the bridge issues no further control call (initiateSession,
\* setupPromptStart, setupSystemPrompt, setupStartAudio) and no further
\* streamAudio call on that session; only the teardown calls of cleanup
\* may follow.
ControlOps == {"initiateSession", "setupPromptStart", "setupSystemPrompt",
               "setupStartAudio"}

C11_NoCallsAfterFatalError ==
    [][fatalError =>
          \A op \in ControlOps \cup {"streamAudio"} :
             aiCalls'[op].called = aiCalls[op].called]_vars

\* C12: media setup is bounded: while the KVS bridge waits for the connect
\* acknowledgement of the signaling channel, or for the peer connection to
\* reach the connected state, the wait eventually ends (with the media
\* path established or the call terminated) whatever the other side does.
MediaSetupPending ==
    /\ variant = "kvs" /\ alive
    /\ \/ pc = "wsConnect"
       \/ wsAcked /\ peer.state # "connected"

C12_MediaSetupBounded == MediaSetupPending ~> ~MediaSetupPending

\* C13: in the /media-stream variant, when the caller's media frames are
\* followed by a processed 'stop', the concatenation of the buffers handed
\* to streamAudio is the concatenation of the queued frames in arrival
\* order: each frame exactly once, none lost, duplicated or reordered by
\* the batching.
C13_BatchingPreservesFrames ==
    (/\ variant = "ms" /\ workload.inorder
     /\ aiCalls["endAudioContent"].called > 0)
       => Flatten(ms.streamed) = [i \in 1..(ms.nextFrame - 1) |-> i]

\* C14: in the KVS bridge, an audioOutput event whose non-empty payload p
\* carries audio and that arrives while the peer connection is connected
\* hands the outbound media path exactly the base64 decoding of p, decoded
\* once.
PeerConnected == peer.made /\ peer.state = "connected"

C14_OutboundAudioDecodedOnce ==
    [][\A p \in AudioPayloads :
          (/\ variant = "kvs" /\ PeerConnected
           /\ p # <<>> /\ Base64Decode(p) # <<>>
           /\ eventsIn' = eventsIn + 1
           /\ audioOutput_kvs(p))
             => pcmOut' = Append(pcmOut, Base64Decode(p))]_vars

\* C15: in every variant each buffer passed to streamAudio is a transport
\* frame, the base64 text of 16-bit linear PCM, and successive calls carry
\* the frames in the order they were received.
IsTransportFrame(buffer) ==
    /\ Len(buffer) % 4 = 0
    /\ \A i \in 1..Len(buffer) : B64Value(buffer[i]) >= 0 \/ buffer[i] = 61
    /\ Len(Base64Decode(buffer)) % 2 = 0
    /\ Base64Encode(Base64Decode(buffer)) = buffer

Increasing(frames) ==
    \A i, j \in 1..Len(frames) : i < j => frames[i] < frames[j]

C15_StreamAudioTransportFrames ==
    /\ \A i \in 1..Len(streamedAudio) :
          IsTransportFrame(streamedAudio[i].buffer)
    /\ Increasing([i \in 1..Len(streamedAudio) |-> streamedAudio[i].frame])
    /\ variant = "ms" =>
          /\ \A i \in 1..Len(ms.streamed) :
                IsTransportFrame(MsStreamBuffer(ms.streamed[i]))
          /\ Increasing(Flatten(ms.streamed))

\* C16: transport framing round-trips: decoding, as the outbound path
\* decodes, the base64 frame the inbound path produced from an even-length
\* PCM buffer yields that buffer.
C16_TransportFrameRoundTrip ==
    variant \in {"kvs", "simple"} =>
       \A i \in 1..Len(streamedAudio) :
          /\ Len(InboundChunk(streamedAudio[i].frame)) % 2 = 0
          /\ Base64Decode(streamedAudio[i].buffer)
                = InboundChunk(streamedAudio[i].frame)

C16_FramesRoundTripped ==
    /\ variant = "kvs"
    /\ Len(streamedAudio) >= 2
    /\ streamedAudio[1].buffer # streamedAudio[2].buffer

\* C17: inbound audio sets the interruption flag only while the agent is
\* speaking and less than INTERRUPTION_THRESHOLD after the agent's
\* contentStart; audio that comes later never sets it.
C17_InterruptionWithinThreshold ==
    [][(/\ variant = "ms"
        /\ ~ms.sessionInterruptionFlag
        /\ ms'.sessionInterruptionFlag)
          => /\ ms.isAgentSpeaking
             /\ now - ms.agentStartedAt < INTERRUPTION_THRESHOLD]_vars

\* C18: within one agent speech block, from a contentStart to the next
\* contentStart or contentEnd, an interruption is detected at most once,
\* and only while the agent is speaking.
C18_OneInterruptionPerBlock ==
    [][(variant = "ms" /\ ms'.block.detections > ms.block.detections)
          => /\ ms.isAgentSpeaking
             /\ ms'.block.detections = 1]_vars

C18_SecondFrameInBlock ==
    /\ variant = "ms" /\ ms.isAgentSpeaking
    /\ ms.block.inbound >= 2 /\ ms.block.detections = 1

\* C19: every contentStart makes agentSpeaking true and clears the
\* interruption flags, every contentEnd makes agentSpeaking false and clears
\* them, so that no interruption flag of the session is set after a
\* contentEnd.
C19_InterruptionFlagsCleared ==
    [][/\ ms_contentStart =>
             /\ ms'.isAgentSpeaking
             /\ ~ms'.interruptionDetected /\ ~ms'.sessionInterruptionFlag
       /\ ms_contentEnd =>
             /\ ~ms'.isAgentSpeaking
             /\ ~ms'.interruptionDetected /\ ~ms'.sessionInterruptionFlag]_vars

\* C19, amended: every contentStart makes agentSpeaking true and clears the
\* detection flag of the speech block, every contentEnd makes agentSpeaking
\* false and clears it; the session's advisory flag is left as it is.
C19_DetectionFlagCleared ==
    [][/\ ms_contentStart =>
             /\ ms'.isAgentSpeaking /\ ~ms'.interruptionDetected
             /\ ms'.sessionInterruptionFlag = ms.sessionInterruptionFlag
       /\ ms_contentEnd =>
             /\ ~ms'.isAgentSpeaking /\ ~ms'.interruptionDetected
             /\ ms'.sessionInterruptionFlag = ms.sessionInterruptionFlag]_vars

C19_BlockEndedAfterInterruption ==
    /\ variant = "ms"
    /\ ~ms.isAgentSpeaking /\ ~ms.interruptionDetected
    /\ ms.sessionInterruptionFlag
    /\ ms.agentStartedAt >= 0

\* C20: the interruption flag is advisory: every audioOutput event that
\* carries content is relayed to the caller, in the order of the events and
\* with the payload made from its content alone, whether or not an
\* interruption is flagged.
C20_RelayIgnoresInterruption ==
    [][ms_audioOutput =>
          \/ /\ ms'.sends.failed = ms.sends.failed + 1
             /\ ms'.relayed = ms.relayed
          \/ /\ ms'.sends.failed = ms.sends.failed
             /\ Len(ms'.relayed) = Len(ms.relayed) + 1
             /\ SubSeq(ms'.relayed, 1, Len(ms.relayed)) = ms.relayed
             /\ LET sent == ms'.relayed[Len(ms'.relayed)]
                IN  /\ sent.content = MsAudioContent(Len(ms'.relayed))
                    /\ sent.payload
                         = Base64Encode(MulawEncode(Int16Samples(
                              Base64Decode(sent.content))))]_vars

C20_RelayedWhileFlagged ==
    /\ variant = "ms"
    /\ \E i \in 1..Len(ms.relayed) : ms.relayed[i].flagged

\* C21: a signaling frame that cannot be processed as JSON with an action is
\* logged and dropped: the step that receives it records one
\* KVS_MESSAGE_PARSE_ERROR (and, for a frame JSON.parse rejects, nothing
\* else), leaves the signaling socket open and kvsState, webRTCState, the
\* peer connection and the position of startup as they were, and the process
\* keeps running, so that the frames that follow meet the same bridge.
C21_UnparseableFrameDropped ==
    [][(Len(sigMsgs') > Len(sigMsgs)
        /\ sigMsgs'[Len(sigMsgs')] \in UnparsedFrames)
       => /\ transcriptLog'
               = transcriptLog \o Acts(UnparsedTags(sigMsgs'[Len(sigMsgs')]))
          /\ Logged("KVS_MESSAGE_PARSE_ERROR")'
               = Logged("KVS_MESSAGE_PARSE_ERROR") + 1
          /\ (sigMsgs'[Len(sigMsgs')] = "unparseable"
              => Entries(transcriptLog') = Entries(transcriptLog) + 1)
          /\ kvsWebSocket' = "OPEN"
          /\ UNCHANGED <<kvsWebSocket, kvsState, webRTCState, peer, pc,
                         exitCode, wsAcked>>]_vars

\* an answer that arrived after an unparseable frame has been applied
C21_AnswerAfterUnparseable ==
    /\ \E i, j \in 1..Len(sigMsgs) :
          i < j /\ sigMsgs[i] = "unparseable" /\ sigMsgs[j] = "answer"
    /\ Logged("KVS_MESSAGE_PARSE_ERROR") > 0
    /\ Logged("WEBRTC_ANSWER_SET") > 0

\* C22: on /media-stream a 'media' frame, well formed or not (no media
\* member, no payload), is recoverable: handling it leaves the caller
\* connection open and the session registered.
C22_MediaFrameRecoverable ==
    [][ms_message_media => (ms'.conn = "open" /\ ms'.registered)]_vars

\* C23: in the KVS bridge, an audioOutput event with audio that arrives
\* while the peer connection is not connected is dropped without throwing:
\* the peer connection (its sender track included) and the outbound path are
\* untouched, no error is recorded for the event, and the drop is recorded
\* as WEBRTC_NOT_READY_FOR_AUDIO.
C23_AudioDroppedWhenNotConnected ==
    [][\A p \in AudioPayloads :
          (/\ variant = "kvs" /\ ~PeerConnected
           /\ p # <<>> /\ Base64Decode(p) # <<>>
           /\ eventsIn' = eventsIn + 1
           /\ audioOutput_kvs(p))
             => /\ peer' = peer /\ pcmOut' = pcmOut
                /\ Logged("WEBRTC_NOT_READY_FOR_AUDIO")'
                     = Logged("WEBRTC_NOT_READY_FOR_AUDIO") + 1
                /\ Logged("AUDIO_RESPONSE_ERROR")' = Logged("AUDIO_RESPONSE_ERROR")
                /\ Logged("NOVA_SONIC_AUDIO_ERROR")'
                     = Logged("NOVA_SONIC_AUDIO_ERROR")
                /\ exitCode' = exitCode]_vars

\* a frame was dropped by the KVS bridge and the process runs on
C23_FrameDropped ==
    /\ variant = "kvs" /\ alive
    /\ Logged("WEBRTC_NOT_READY_FOR_AUDIO") > 0
    /\ pcmOut = <<>> /\ ~peer.sender

\* C24: in the KVS bridge a frame is forwarded to streamAudio only when both
\* sides are ready: the four setup steps of the AI session have completed
\* and the connection state of the peer connection is 'connected'.
C24_BridgedOnlyWhenBothReady ==
    [][(/\ variant = "kvs"
        /\ aiCalls'["streamAudio"].called > aiCalls["streamAudio"].called)
       => /\ \A op \in ControlOps : aiCalls[op].ok > 0
          /\ PeerConnected]_vars

\* C25: whatever the order of inbound offer, answer and ice-candidate
\* frames, the handshake follows the Media Session state machine: an answer
\* is sent only after a remote offer has been applied, a remote answer is
\* applied only after the bridge's own offer has been sent, and the bridge
\* never both sends its own offer and answers a remote offer in one call.
C25_HandshakeFollowsStateMachine ==
    /\ Logged("WEBRTC_ANSWER_SENT") > 0 => Logged("WEBRTC_OFFER_SET") > 0
    /\ Logged("WEBRTC_ANSWER_SET") > 0 => Logged("WEBRTC_OFFER_SENT") > 0
    /\ ~(Logged("WEBRTC_OFFER_SENT") > 0 /\ Logged("WEBRTC_ANSWER_SENT") > 0)

\* C26: every remote ICE candidate received over signaling is handed to
\* addIceCandidate, in the order of arrival; each candidate is recorded as
\* added or as an adding error, and a step that records an adding error
\* leaves the signaling state, the media state, the peer connection's
\* connection and signaling state, startup and the process as they were.
C26_EveryCandidateAttempted ==
    /\ [](/\ peer.iceTried = [i \in 1..peer.iceIn |-> i]
          /\ Logged("ICE_CANDIDATE_ADDED") + Logged("ICE_CANDIDATE_ADDING_ERROR")
               + Cardinality({i \in 1..Len(peer.pending) :
                                 peer.pending[i].op = "ice"}) = peer.iceIn)
    /\ [][Logged("ICE_CANDIDATE_ADDING_ERROR")' > Logged("ICE_CANDIDATE_ADDING_ERROR")
          => /\ UNCHANGED <<kvsState, webRTCState, kvsWebSocket, pc, exitCode>>
             /\ peer'.state = peer.state /\ peer'.sig = peer.sig
             /\ peer'.closed = peer.closed]_vars

\* C26 as the code has it: a candidate that arrives while no peer connection
\* exists (startup has not yet resumed from the connect acknowledgement and
\* created it) is recorded as an adding error and dropped; every candidate
\* that arrives once the peer connection exists is handed to
\* addIceCandidate, in the order of arrival, and the rest of C26 holds for
\* all of them.
C26_CandidatesOfPeerAttemptedInOrder ==
    /\ [][peer'.iceIn # peer.iceIn =>
            /\ peer'.iceIn = peer.iceIn + 1
            /\ IF peer.made
               THEN /\ peer'.iceTried = Append(peer.iceTried, peer'.iceIn)
                    /\ peer'.pending # <<>>
                    /\ LET last == peer'.pending[Len(peer'.pending)]
                       IN  last.op = "ice" /\ last.id = peer'.iceIn
                    /\ Logged("ICE_CANDIDATE_ADDING_ERROR")'
                         = Logged("ICE_CANDIDATE_ADDING_ERROR")
               ELSE /\ peer'.iceTried = peer.iceTried
                    /\ peer'.pending = peer.pending
                    /\ Logged("ICE_CANDIDATE_ADDING_ERROR")'
                         = Logged("ICE_CANDIDATE_ADDING_ERROR") + 1]_vars
    /\ [](/\ \A i, j \in 1..Len(peer.iceTried) :
                i < j => peer.iceTried[i] < peer.iceTried[j]
          /\ Logged("ICE_CANDIDATE_ADDED")
               + Logged("ICE_CANDIDATE_ADDING_ERROR")
               + Cardinality({i \in 1..Len(peer.pending) :
                                 peer.pending[i].op = "ice"}) = peer.iceIn)
    /\ [][Logged("ICE_CANDIDATE_ADDING_ERROR")' > Logged("ICE_CANDIDATE_ADDING_ERROR")
          => /\ UNCHANGED <<kvsState, webRTCState, kvsWebSocket, pc, exitCode>>
             /\ peer'.state = peer.state /\ peer'.sig = peer.sig
             /\ peer'.closed = peer.closed]_vars

\* a candidate was refused for want of a remote description and, after the
\* answer, the next candidate was added
C26_AddedAfterFailure ==
    /\ \E i, j, k \in 1..Len(sigMsgs) :
          /\ i < j /\ j < k
          /\ sigMsgs[i] = "ice-candidate" /\ sigMsgs[j] = "answer"
          /\ sigMsgs[k] = "ice-candidate"
    /\ peer.iceTried = <<1, 2>> /\ peer.pending = <<>>
    /\ Logged("ICE_CANDIDATE_ADDING_ERROR") = 1
    /\ Logged("ICE_CANDIDATE_ADDED") = 1

\* C27: without STREAM_ARN startup is fatal: no signaling socket is ever
\* created, no peer connection is made, SERVER_STARTED is never logged, and
\* once the AI session is set up and connectToKVSSignalingChannel has
\* refused to go on, the process has exited with code 1.
C27_MissingStreamArnFatal ==
    (variant \in {"kvs", "sim"} /\ ~streamArnSet)
       => /\ kvsWebSocket = "none" /\ kvsState # "connected" /\ ~peer.made
          /\ Logged("SERVER_STARTED") = 0
          /\ Logged("KVS_CONNECTION_STARTED") = 0
          /\ (aiCalls["setupStartAudio"].ok > 0 \/ Logged("KVS_CONNECTION_FAILED") > 0)
                => (exitCode = 1 /\ Logged("SERVER_START_FAILED") = 1)

\* the KVS bridge was started without STREAM_ARN and has exited
C27_ExitedWithoutStreamArn ==
    /\ variant = "kvs" /\ ~streamArnSet
    /\ aiCalls["setupStartAudio"].ok > 0
    /\ Logged("KVS_CONNECTION_FAILED") = 1
    /\ exitCode = 1

\* C28: a failure after the AI session has been opened is resolved through
\* the cleanup sequence: when the process has exited on a startup failure
\* that followed a complete AI session setup, endAudioContent, endPrompt and
\* close have been invoked on the session.
C28_FailureResolvedByCleanup ==
    (variant \in SingleCall /\ exitCode = 1 /\ aiCalls["setupStartAudio"].ok > 0)
       => \A op \in {"endAudioContent", "endPrompt", "close"} :
             aiCalls[op].called > 0

\* the types of the events the 'any' handler has recorded in the activity
\* log, oldest first
RECURSIVE AnySeen(_)
AnySeen(log) ==
    IF log = <<>> THEN <<>>
    ELSE (IF Head(log).event = "NOVA_SONIC_EVENT_RECEIVED"
          THEN <<Head(log).details>> ELSE <<>>) \o AnySeen(Tail(log))

\* the first n events of a session that emits the turn contentStart,
\* textOutput, audioOutput, contentEnd over and over
Turns(n) ==
    [i \in 1..n |-> <<"contentStart", "textOutput", "audioOutput",
                      "contentEnd">>[((i - 1) % 4) + 1]]

C30_LogsAppendOnly ==
    /\ [][/\ Len(transcriptLog') >= Len(transcriptLog)
          /\ SubSeq(transcriptLog', 1, Len(transcriptLog)) = transcriptLog
          /\ Len(novaSonicResponses') >= Len(novaSonicResponses)
          /\ SubSeq(novaSonicResponses', 1, Len(novaSonicResponses))
                = novaSonicResponses
          /\ Len(transcriptLog') - Len(transcriptLog)
                = callLogLines' - callLogLines
          /\ lastActivity' >= lastActivity
          /\ (callLogLines' # callLogLines) => lastActivity' = now
          /\ (lastActivity' # lastActivity)
                => (\/ callLogLines' # callLogLines
                    \/ novaSonicResponses' # novaSonicResponses)
          /\ (/\ variant = "kvs" /\ eventsIn' > eventsIn
              /\ anyEvents'.eventType \in {"contentStart", "contentEnd"})
                => Entries(transcriptLog') = Entries(transcriptLog) + 2
         ]_vars
    /\ [](Len(transcriptLog) = callLogLines)

\* the KVS bridge has logged two AI responses and further activity after
\* the clock moved on from the start of the call
C30_LogsGrown ==
    /\ variant = "kvs"
    /\ Len(novaSonicResponses) = 2
    /\ Logged("NOVA_SONIC_TEXT_RESPONSE") = 2
    /\ Entries(transcriptLog) > 4
    /\ lastActivity > 0

\* C31: while the KVS bridge is alive and serves /health with its idle timer
\* armed, the seconds until timeout of the health reply are the time left
\* until the armed timer fires, and never negative
C31_HealthMatchesArmedTimer ==
    (variant = "kvs" /\ alive /\ listening /\ sessionTimeoutId # NULL)
    => \A t \in pendingTimers :
          t.id = sessionTimeoutId
          => /\ health_timeUntilTimeout * 1000 = t.deadline - now
             /\ health_timeUntilTimeout >= 0

\* C32: in the /media-stream bridge a sweep closes the registered session
\* exactly when its recorded activity is more than five minutes old, and
\* leaves a session with younger activity registered and unclosed; once the
\* close has settled, successfully or not, the session is out of the
\* registry; nothing but that and the closing of the caller's connection
\* takes a session out of the registry
C32_SweepClosesOnlyOrphans ==
    [][variant = "ms" =>
         LET old == ms.registered /\ now - ms.activity > ORPHAN_AGE_MS
             closes == aiCalls'["close"].called - aiCalls["close"].called
             settled == ms'.awaiting["close"] < ms.awaiting["close"]
         IN  /\ (ms.sweepDue /\ ~ms'.sweepDue) =>
                   /\ old => closes = 1
                   /\ ~old => /\ closes = 0
                              /\ ms'.registered = ms.registered
                              /\ ms'.activity = ms.activity
             /\ closes > 0 => old
             /\ settled => ~ms'.registered
             /\ (ms.registered /\ ~ms'.registered) =>
                   (settled \/ ms'.conn = "closed")]_vars

\* the sweep found the session of an open connection idle for over five
\* minutes, its close failed, and the session is out of the registry
C32_OrphanRemovedAfterFailedClose ==
    /\ variant = "ms" /\ ms.conn = "open"
    /\ now > ORPHAN_AGE_MS
    /\ aiCalls["close"].failed = 1
    /\ ~ms.registered

\* C33: the idle timer's callback starts a timeout cleanup only when at least
\* 300 seconds have passed since the last Nova Sonic response
C33_NoTimeoutBefore300Seconds ==
    [][(variant \in {"kvs", "simple"} /\ timeoutCleanups' # timeoutCleanups)
         => now - lastNovaSonicResponseTime >= 300000]_vars

\* C34: at most one idle timer is pending at any time, it is the one
\* sessionTimeoutId names, and no two timeout cleanups were triggered in the
\* same idle period (with the same last AI event before them)
C34_AtMostOneIdleTimer ==
    /\ Cardinality(pendingTimers) <= 1
    /\ \A t \in pendingTimers : t.id = sessionTimeoutId
    /\ \A c1, c2 \in timeoutCleanups : c1.lastEvent = c2.lastEvent => c1 = c2

\* the KVS bridge armed its idle timer at startup and re-armed it for two AI
\* responses, the second after the clock had moved on; one timer is pending
C34_TimerRearmed ==
    /\ variant = "kvs"
    /\ timerSeq = 3
    /\ lastNovaSonicResponseTime > 0
    /\ Cardinality(pendingTimers) = 1

\* C35: in the bridges that keep an idle timer, no timer is pending once a
\* cleanup() has started, and no timer callback starts a cleanup after
\* another cleanup began
C35_TimerStaysCancelledAfterCleanup ==
    /\ (variant \in {"kvs", "simple"} /\ alive /\ runs # <<>>)
          => pendingTimers = {}
    /\ \A i \in 2..Len(runs) : runs[i].trig # "timer"

\* C36: in the /media-stream bridge the session id is a key of sessionMap
\* exactly when it is a key of sessionActivityTimes, and an id that left the
\* registry is in neither map afterwards
C36_RegistryMapsAgree ==
    variant = "ms" => (ms.registered <=> ms.activity # -1)

\* C37: the KVS bridge records kvsState 'connected' only once a connect
\* acknowledgement has come from the relay; in every single-call bridge
\* webRTCState is 'connected' only with kvsState 'connected', and no step
\* takes either state from 'connected' to another value
C37_ConnectionStatesOnlyAdvance ==
    /\ []((variant = "kvs" /\ kvsState = "connected")
              => (wsAcked /\ "connect" \in Range(sigMsgs)))
    /\ []((webRTCState = "connected") => (kvsState = "connected"))
    /\ [][((kvsState = "connected") => (kvsState' = "connected"))
           /\ ((webRTCState = "connected")
                  => (webRTCState' = "connected"))]_vars

\* the KVS bridge recorded both states as connected, and the peer connection
\* has since left its connected state
C37_BothConnectedThenPeerLost ==
    /\ variant = "kvs"
    /\ kvsState = "connected" /\ webRTCState = "connected"
    /\ peer.state \in {"disconnected", "failed"}

\* C38: the KVS bridge hands an offer or an answer to the signaling WebSocket
\* only while the socket is open; a step that has an offer or an answer to
\* send while the socket is not open logs that the message was not sent and
\* does not log it as sent
C38_SignalingSentOnlyWhenOpen ==
    [][variant = "kvs" =>
         /\ (Logged("WEBRTC_OFFER_SENT")' > Logged("WEBRTC_OFFER_SENT")
              \/ Logged("WEBRTC_ANSWER_SENT")' > Logged("WEBRTC_ANSWER_SENT"))
               => kvsWebSocket = "OPEN"
         /\ (/\ Logged("WEBRTC_OFFER_CREATED")' > Logged("WEBRTC_OFFER_CREATED")
             /\ kvsWebSocket # "OPEN")
               => Logged("WEBRTC_OFFER_NOT_SENT")'
                    > Logged("WEBRTC_OFFER_NOT_SENT")
         /\ (/\ Logged("WEBRTC_ANSWER_CREATED_AND_SET")'
                  > Logged("WEBRTC_ANSWER_CREATED_AND_SET")
             /\ kvsWebSocket # "OPEN")
               => Logged("WEBRTC_ANSWER_NOT_SENT_KVS_NOT_READY")'
                    > Logged("WEBRTC_ANSWER_NOT_SENT_KVS_NOT_READY")]_vars

\* C39: the KVS bridge logs AUDIO_SENT_TO_AMAZON_CONNECT only in a step that
\* hands a frame to a connected peer connection, and a step that logs the
\* media connection as not ready for audio logs no frame as sent
C39_SentRecordOnlyForDeliveredFrame ==
    [][variant = "kvs" =>
         /\ Logged("AUDIO_SENT_TO_AMAZON_CONNECT")'
               > Logged("AUDIO_SENT_TO_AMAZON_CONNECT")
               => /\ peer.made /\ peer.state = "connected"
                  /\ Len(pcmOut') > Len(pcmOut)
         /\ Logged("WEBRTC_NOT_READY_FOR_AUDIO")'
               > Logged("WEBRTC_NOT_READY_FOR_AUDIO")
               => Logged("AUDIO_SENT_TO_AMAZON_CONNECT")'
                    = Logged("AUDIO_SENT_TO_AMAZON_CONNECT")]_vars

====
